---------------------------- MODULE Spec2Model ----------------------------
(***************************************************************************)
(* Model of the neurodlb Telegram video bot: the message dispatcher of     *)
(* src/src/bot.py, the classifier of src/src/llm_handler.py, the resolver  *)
(* of src/src/video_source_handler.py and the pipeline of                  *)
(* src/src/video_processor.py.                                             *)
(*                                                                         *)
(* The specifications share the variables:                                 *)
(*   Spec      the running bot: the only entry point is handle_message.    *)
(*   SpecApi   the components driven through their public functions as a   *)
(*             unit test drives them (memory save/get/clear,               *)
(*             download_video, trim_video) next to handle_message.         *)
(*   SpecFail  the running bot with Telegram calls that raise inside the   *)
(*             try block of handle_llm_request.                            *)
(*   SpecLoop  two handler coroutines on the one event loop.               *)
(*   SpecParse parse_time_request on each text and duration.               *)
(*   SpecPage  the browser stage on each page (lists of candidates).       *)
(*   SpecScan  one download attempt on each state of the temp tree.        *)
(* Times are seconds, confidences are hundredths (0.3 is 30), file sizes   *)
(* are MiB.                                                                *)
(***************************************************************************)
EXTENDS Integers, Sequences, FiniteSets, TLC

\* ------------------------------------------------------------------ bounds
MaxReqs == 2
MaxClock == 7200
TickStep == 3600
MaxCandidates == 2

\* ------------------------------------------------------- program constants
MemoryTTL == 3600
ConfidenceGate == 50
FallbackConfidence == 30
WarnSizeMB == 100

\* ------------------------------------------------------------- vocabulary
Tasks == {"t1"}
Users == {"u1", "u2"}
None == "None"
NoTime == 0 - 1

\* Messages are sequences of whitespace-separated tokens (already
\* lower-cased); the text is the tokens joined by single spaces.  Russian
\* words are written in Latin transliteration: "obrezh", "obrezat", "eto",
\* "s", "po", "do", "ot", "sek", "sekund", "min", "minut" are the Cyrillic
\* keywords of the source; "bot", "video", "privet", "skachai" are ordinary
\* Cyrillic words.
UrlA == "https://example.com/v/1"
UrlB == "https://vimeo.com/123"
UrlCut == "https://shortcut.tv/9"
UrlNoHost == "http:///x"

Texts ==
  { <<UrlA>>,
    <<"skachai", UrlA>>,
    <<UrlCut>>,
    <<UrlNoHost>>,
    <<"trim", UrlA>>,
    <<"obrezh", "eto", "s", "10", "po", "20">>,
    <<UrlB, "ot", "5", "do", "15">>,
    <<"obrezh", "video">>,
    <<"privet", "bot", "!">>,
    <<"hello">> }

\* re.findall(r"https?://[^\s]+", text): the tokens holding a match.
TokMatchesUrlPattern(tok) == tok \in {UrlA, UrlB, UrlCut, UrlNoHost}

\* urlparse(url).scheme and urlparse(url).netloc are both non-empty.
TokHasNetloc(tok) == tok \in {UrlA, UrlB, UrlCut}

\* The keywords without a trailing space that occur inside a token.
TokContains(tok) ==
  CASE tok = "obrezh" -> {"obrezh"}
    [] tok = "trim" -> {"trim"}
    [] tok = UrlCut -> {"cut"}
    [] tok = "eto" -> {"eto"}
    [] OTHER -> {}

\* The words w such that the token ends with w (for the keywords "w ").
TokEndsWith(tok) ==
  CASE tok = "s" -> {"s"}
    [] tok = "po" -> {"po"}
    [] tok = "do" -> {"do"}
    [] tok = "ot" -> {"ot"}
    [] tok = "bot" -> {"ot"}
    [] OTHER -> {}

\* keyword in text, for a keyword without a space and for a keyword "w ".
KeywordIn(kw, text) == \E i \in 1..Len(text) : kw \in TokContains(text[i])
SpaceKeywordIn(w, text) ==
  \E i \in 1..Len(text) : i < Len(text) /\ w \in TokEndsWith(text[i])

is_video_url(text) ==
  \E i \in 1..Len(text) : TokMatchesUrlPattern(text[i]) /\ TokHasNetloc(text[i])

extract_video_url(text) ==
  IF is_video_url(text)
    THEN LET i == CHOOSE j \in 1..Len(text) :
                    /\ TokMatchesUrlPattern(text[j]) /\ TokHasNetloc(text[j])
                    /\ \A k \in 1..(j - 1) :
                         ~(TokMatchesUrlPattern(text[k]) /\ TokHasNetloc(text[k]))
         IN text[i]
    ELSE None

contains_trim_request(text) ==
  \/ \E kw \in {"obrezh", "obrezat", "trim", "cut", "sekund", "minut", "sek", "min"} :
       KeywordIn(kw, text)
  \/ \E w \in {"s", "ot", "po", "do"} : SpaceKeywordIn(w, text)

\* ------------------------------------------------------------ user memory
\* A file on disk is named by the request that created it and its role.
NoFile == [req |-> 0, kind |-> "none"]

\* The store maps a user to the set holding its UserVideoMemory entry, or
\* to the empty set when user_memories has no such key.  An entry keeps the
\* remembered URL, the path of the delivered file and its creation time.
Entry(url, path, t) == [video_url |-> url, video_path |-> path, timestamp |-> t]

\* is_expired with the comparison >= : an entry exactly one hour old
\* counts as expired.
is_expired_ge(m, t) == t - m.timestamp >= MemoryTTL

\* UserVideoMemory.is_expired, with datetime.now() = t.
is_expired(m, t) == t - m.timestamp > MemoryTTL

\* VideoMemoryManager.get_video_memory: the value returned (a set with the
\* entry, or the empty set for None) ...
get_video_memory(mem, u, t) == {m \in mem[u] : ~is_expired(m, t)}

\* ... and the store it leaves behind (del user_memories[user_id]).
purge_expired(mem, u, t) ==
  IF \E m \in mem[u] : ~is_expired(m, t)
    THEN mem
    ELSE IF \E m \in mem[u] : is_expired(m, t)
           THEN [mem EXCEPT ![u] = {}]
           ELSE mem

save_video_info(mem, u, url, path, t) ==
  [mem EXCEPT ![u] = {Entry(url, path, t)}]

\* clear_memory emptying the whole store.
clear_memory_all(mem, u) == [v \in Users |-> {}]

\* VideoMemoryManager.clear_memory.
clear_memory(mem, u) == IF mem[u] # {} THEN [mem EXCEPT ![u] = {}] ELSE mem

\* ------------------------------------------------------------- classifier
\* What self.client.chat(...) followed by json.loads yields.  kind is
\*   "error"       the call raised (network error, API error),
\*   "rate_limit"  the call raised the API's rate-limit error (HTTP 429),
\*   "not_json"    the content is not JSON (json.JSONDecodeError),
\*   "json"        a JSON object; missing is the set of required keys it
\*                 lacks, and a value is tagged with its JSON type:
\*                 ty "num", "bool", "str" or "null", v the number in
\*                 hundredths for a confidence, 1/0 for true/false.
RequiredFields ==
  {"action", "video_url", "start_time", "end_time", "use_last_video", "confidence"}

Num(n) == [ty |-> "num", v |-> n]
Bool(b) == [ty |-> "bool", v |-> IF b THEN 1 ELSE 0]
Str == [ty |-> "str", v |-> 0]
Null == [ty |-> "null", v |-> 0]

Json(act, url, st, en, ulv, conf, miss) ==
  [kind |-> "json", action |-> act, video_url |-> url, start_time |-> st,
   end_time |-> en, use_last_video |-> ulv, confidence |-> conf, missing |-> miss]

Failure(k) == [Json("", None, NoTime, NoTime, Null, Null, {}) EXCEPT !.kind = k]

ModelReplies ==
  { Failure("error"),
    Failure("rate_limit"),
    Failure("not_json"),
    Json("download", UrlA, NoTime, NoTime, Bool(FALSE), Num(90), {}),
    Json("download", None, NoTime, NoTime, Bool(FALSE), Num(90), {}),
    Json("download", UrlA, NoTime, NoTime, Bool(FALSE), Num(30), {}),
    Json("download", UrlA, NoTime, NoTime, Bool(FALSE), Num(49), {}),
    Json("download", UrlA, NoTime, NoTime, Bool(FALSE), Num(150), {}),
    Json("trim", None, 10, 20, Bool(TRUE), Num(90), {}),
    Json("trim", None, 10, 20, Bool(TRUE), Num(50), {}),
    Json("trim", None, 10, 20, Bool(FALSE), Num(90), {}),
    Json("trim", None, NoTime, NoTime, Bool(TRUE), Num(90), {}),
    Json("trim", None, 10, 20, Bool(TRUE), Num(20), {}),
    Json("download_and_trim", UrlB, 5, 15, Bool(FALSE), Num(90), {}),
    Json("download_and_trim", UrlB, 0, 15, Bool(FALSE), Num(90), {}),
    Json("download_and_trim", None, 5, 15, Bool(FALSE), Num(90), {}),
    Json("download_and_trim", "", 5, 15, Bool(FALSE), Num(90), {}),
    Json("download_and_trim", UrlB, NoTime, 15, Bool(FALSE), Num(90), {}),
    Json("download_and_trim", UrlB, 5, NoTime, Bool(FALSE), Num(90), {}),
    Json("download_and_trim", UrlB, 5, 15, Bool(FALSE), Num(10), {}),
    Json("rate_limit", None, NoTime, NoTime, Bool(FALSE), Num(90), {}),
    Json("unknown", None, NoTime, NoTime, Bool(FALSE), Num(90), {}),
    Json("download", UrlA, NoTime, NoTime, Bool(FALSE), Num(90), {"confidence"}),
    Json("download", UrlA, NoTime, NoTime, Bool(FALSE), Num(90), {"end_time"}),
    Json("download", UrlA, NoTime, NoTime, Bool(FALSE), Str, {}),
    Json("download", UrlA, NoTime, NoTime, Bool(FALSE), Null, {}),
    Json("download", UrlA, NoTime, NoTime, Bool(FALSE), Bool(TRUE), {}),
    Json("download", UrlA, NoTime, NoTime, Str, Num(90), {}),
    Json("trim", None, 10, 20, Num(100), Num(90), {}) }

\* LLMHandler._validate_result.  isinstance(x, (int, float)) accepts the
\* Python bool a JSON true/false is loaded as; isinstance(x, bool) accepts
\* nothing else.
_validate_result(r) ==
  /\ r.missing = {}
  /\ r.action \in {"download", "trim", "download_and_trim"}
  /\ r.confidence.ty \in {"num", "bool"}
  /\ r.use_last_video.ty = "bool"

\* The dictionary handed to the dispatcher.  fallback records which branch
\* of process_request produced it.
Result(act, url, st, en, ulv, conf, fb) ==
  [action |-> act, video_url |-> url, start_time |-> st, end_time |-> en,
   use_last_video |-> ulv, confidence |-> conf, fallback |-> fb]

NoResult == Result("", None, NoTime, NoTime, FALSE, 0, FALSE)

\* LLMHandler._create_fallback_result.  Its own keyword list is shorter
\* than contains_trim_request's, and its URL test is the regular
\* expression alone (no urlparse check).  The two-word entries of
\* last_video_keywords each contain a one-word entry, so they never decide.
_create_fallback_result(text) ==
  LET urls == SelectSeq(text, TokMatchesUrlPattern)
      has_trim == \/ \E kw \in {"obrezh", "obrezat"} : KeywordIn(kw, text)
                  \/ \E w \in {"s", "ot", "po", "do"} : SpaceKeywordIn(w, text)
      has_last_video_ref ==
        \E kw \in {"eto", "poslednee", "predydushchee"} : KeywordIn(kw, text)
      action == IF urls # <<>> /\ has_trim THEN "download_and_trim"
                ELSE IF urls # <<>> THEN "download"
                ELSE IF has_trim THEN "trim"
                ELSE "unknown"
  IN Result(action, IF urls # <<>> THEN urls[1] ELSE None, NoTime, NoTime,
            has_last_video_ref, FallbackConfidence, TRUE)

\* The number Python computes with for a validated confidence: True is 1.
AsNumber(x) == IF x.ty = "bool" THEN 100 * x.v ELSE x.v

\* LLMHandler.process_request, given what the model call yields.
process_request(text, reply) ==
  IF reply.kind = "json" /\ _validate_result(reply)
    THEN Result(reply.action, reply.video_url, reply.start_time, reply.end_time,
                reply.use_last_video.v = 1, AsNumber(reply.confidence), FALSE)
    ELSE _create_fallback_result(text)

\* LLMHandler.extract_time_range: a second, independent classification.
\* The value is <<start, end>>, or <<>> for None.
extract_time_range(text, reply) ==
  LET result == process_request(text, reply)
  IN IF /\ result.action \in {"trim", "download_and_trim"}
        /\ result.start_time # NoTime /\ result.end_time # NoTime
       THEN <<result.start_time, result.end_time>>
       ELSE <<>>

\* ------------------------------------------------------------ file sizes
Sizes == {40, 48, 200}

\* get_max_file_size and get_recommended_max_size, in MiB; api is the
\* truth value of TELEGRAM_BOT_API_URL.
get_max_file_size(api) == IF api THEN 2048 ELSE 50
get_recommended_max_size(api) == IF api THEN 500 ELSE 45

\* check_file_size_for_telegram accepting every size.
check_file_size_always_acceptable(size, api) ==
  IF size > get_recommended_max_size(api) THEN <<TRUE, "over_recommended">>
  ELSE IF size > WarnSizeMB THEN <<TRUE, "big">>
  ELSE <<TRUE, "">>

\* check_file_size_for_telegram without the test against the recommended
\* size.
check_file_size_no_recommended(size, api) ==
  IF size > get_max_file_size(api) THEN <<FALSE, "too_big">>
  ELSE IF size > WarnSizeMB THEN <<TRUE, "big">>
  ELSE <<TRUE, "">>

\* check_file_size_for_telegram: <<is_acceptable, message>>.
check_file_size_for_telegram(size, api) ==
  IF size > get_max_file_size(api) THEN <<FALSE, "too_big">>
  ELSE IF size > get_recommended_max_size(api) THEN <<TRUE, "over_recommended">>
  ELSE IF size > WarnSizeMB THEN <<TRUE, "big">>
  ELSE <<TRUE, "">>

\* ------------------------------------------------------------------ state
VARIABLES
  llmConfigured,  \* MISTRAL_API_KEY is set: llm_handler and source_handler exist
  localApi,       \* TELEGRAM_BOT_API_URL is set
  memory,         \* video_memory.user_memories
  now,            \* datetime.now()
  files,          \* the files under TEMP_DIR
  reqCount,       \* calls started so far
  req,            \* per task: the call it is executing
  loopOwner,      \* the coroutine the event-loop thread is executing
  coro,           \* per coroutine: the external call it has reached
  parse,          \* a call of parse_time_request: arguments and result
  page,           \* a run of the browser stage: the candidates and the result
  scan            \* a download attempt: the files it finds and the one returned

vars ==
  <<llmConfigured, localApi, memory, now, files, reqCount, req,
    loopOwner, coro, parse, page, scan>>

\* The variables the specifications of the event loop and of the parser
\* add to the bot's own state.
sideVars == <<loopOwner, coro, parse, page, scan>>

\* Two handler coroutines (two users' messages) on the one event loop.
Coros == {"a", "b"}
NoOwner == "nobody"
NotStarted == [at |-> 0, phase |-> "ready"]

\* No download attempt is in progress.
NoScan == [attempt |-> "none", extractor |-> "ok", expected |-> "missing",
           sibling |-> "missing", foreign |-> {}, from |-> "none",
           path |-> {}, phase |-> "returned"]

\* No run of the browser stage is in progress.
NoPage == [dom |-> <<>>, scripted |-> <<>>, from |-> "none", at |-> 0,
           returned |-> TRUE]

\* No call of parse_time_request is in progress.
NoCall == [text |-> <<>>, video_duration |-> NoTime, result |-> <<>>,
           returned |-> TRUE]

Idle ==
  [pc |-> "idle", entry |-> "none", id |-> 0, user |-> "u1", text |-> <<>>,
   fast |-> FALSE, reply |-> Failure("none"), result |-> NoResult,
   mem |-> {}, got |-> {}, before |-> {}, getTime |-> 0, purged |-> FALSE,
   range |-> <<>>,
   caller |-> "none", url |-> None, cb |-> "none",
   stageIdx |-> 0, stages |-> <<>>, outcomes |-> <<>>, notes |-> <<>>,
   method |-> "", tested |-> FALSE, formats |-> <<>>, probe |-> "none",
   video_path |-> NoFile, video_size |-> 0,
   trimmed_path |-> NoFile, trimmed_size |-> 0,
   sent |-> NoFile, log |-> <<>>, extFail |-> FALSE]

Init ==
  /\ llmConfigured \in BOOLEAN
  /\ localApi \in BOOLEAN
  /\ memory = [u \in Users |-> {}]
  /\ now = 0
  /\ files = {}
  /\ reqCount = 0
  /\ req = [t \in Tasks |-> Idle]
  /\ loopOwner = NoOwner
  /\ coro = [c \in Coros |-> NotStarted]
  /\ parse = NoCall
  /\ page = NoPage
  /\ scan = NoScan

Free(t) == req[t].pc \in {"idle", "done"} /\ reqCount < MaxReqs

\* The wall clock advances between any two steps.
Tick ==
  /\ now + TickStep <= MaxClock
  /\ now' = now + TickStep
  /\ UNCHANGED <<sideVars, llmConfigured, localApi, memory, files, reqCount, req>>

\* ------------------------------------------------------------- dispatcher
\* The transport delivers a text message to handle_message.
Receive(t) ==
  /\ Free(t)
  /\ \E u \in Users, text \in Texts :
       req' = [req EXCEPT ![t] =
                 [Idle EXCEPT !.pc = "handle_message", !.entry = "message",
                              !.id = reqCount + 1, !.user = u, !.text = text]]
  /\ reqCount' = reqCount + 1
  /\ UNCHANGED <<sideVars, llmConfigured, localApi, memory, now, files>>

\* The simple-mode routing of handle_message (and of the except branch of
\* handle_llm_request), up to the first handler that awaits:
\*   "vr"  handle_video_request, "cr"  handle_combined_request,
\*   otherwise the reply sent.
simple_mode(text) ==
  IF is_video_url(text) THEN "vr"
  ELSE IF contains_trim_request(text)
         THEN IF extract_video_url(text) # None THEN "cr" ELSE "reply:trim_needs_link"
  ELSE "reply:greeting"

\* The fast-path test without the negation of contains_trim_request.
fast_path_on_trim(text) ==
  /\ is_video_url(text) /\ contains_trim_request(text)
  /\ extract_video_url(text) # None

\* handle_llm_request takes the fast path: a URL and no trim keyword.
fast_path(text) ==
  /\ is_video_url(text) /\ ~contains_trim_request(text)
  /\ extract_video_url(text) # None

\* handle_message, and handle_llm_request up to the model call.
HandleMessage(t) ==
  LET r == req[t] IN
  /\ r.pc = "handle_message"
  /\ IF llmConfigured
       THEN IF fast_path(r.text)
              THEN /\ req' = [req EXCEPT ![t] =
                        [r EXCEPT !.pc = "vd", !.fast = TRUE, !.caller = "vd",
                                  !.url = extract_video_url(r.text)]]
                   /\ UNCHANGED memory
              ELSE /\ req' = [req EXCEPT ![t] =
                        [r EXCEPT !.pc = "process_request",
                                  !.mem = get_video_memory(memory, r.user, now),
                                  !.got = get_video_memory(memory, r.user, now),
                                  !.before = memory[r.user], !.getTime = now,
                                  !.purged = (purge_expired(memory, r.user, now) # memory),
                                  !.log = Append(@, "memget")]]
                   /\ memory' = purge_expired(memory, r.user, now)
       ELSE /\ UNCHANGED memory
            /\ LET m == simple_mode(r.text) IN
               req' = [req EXCEPT ![t] =
                 IF m \in {"vr", "cr"}
                   THEN [r EXCEPT !.pc = m, !.caller = m,
                                  !.url = extract_video_url(r.text)]
                   ELSE [r EXCEPT !.pc = "done", !.log = Append(@, m)]]
  /\ UNCHANGED <<sideVars, llmConfigured, localApi, now, files, reqCount>>

\* llm_handler.process_request: one model call, validation or fallback.
ProcessRequest(t) ==
  LET r == req[t] IN
  /\ r.pc = "process_request"
  /\ \E reply \in ModelReplies :
       req' = [req EXCEPT ![t] =
                 [r EXCEPT !.pc = "dispatch", !.reply = reply,
                           !.result = process_request(r.text, reply),
                           !.log = Append(@, "llm")]]
  /\ UNCHANGED <<sideVars, llmConfigured, localApi, memory, now, files, reqCount>>

\* The gate with the threshold at the fallback confidence: a fallback result
\* is not stopped.
low_confidence_at_fallback(confidence) == confidence < FallbackConfidence

\* The confidence gate of handle_llm_request.
low_confidence(confidence) == confidence < ConfidenceGate

\* handle_download_trim_action without the test of end_time.
handle_download_trim_action_start_only(result) ==
  IF result.video_url \in {None, ""} THEN "reply:no_url"
  ELSE IF result.start_time = NoTime THEN "reply:no_time_range"
  ELSE ""

\* handle_download_trim_action: the reply sent instead of the download, or
\* "" when the download-and-trim handler is entered.
handle_download_trim_action(result) ==
  IF result.video_url \in {None, ""} THEN "reply:no_url"
  ELSE IF result.start_time = NoTime \/ result.end_time = NoTime
         THEN "reply:no_time_range"
  ELSE ""

\* handle_trim_only_action without the test of use_last_video.
handle_trim_only_action_any_memory(use_last_video, user_memory) ==
  IF user_memory # {} THEN "tfm" ELSE "reply:clarify_trim"

\* handle_trim_only_action: the handler entered, or the reply sent.  The
\* store is consulted only when use_last_video is set.
handle_trim_only_action(use_last_video, user_memory) ==
  IF use_last_video /\ user_memory # {} THEN "tfm" ELSE "reply:clarify_trim"

\* handle_llm_request after the model call: the rate-limit branch, the
\* confidence gate and the dispatch on the action, with
\* handle_download_action, handle_trim_only_action and
\* handle_download_trim_action up to the handler they enter.
Dispatch(t) ==
  LET r == req[t]
      res == r.result
      Reply(m) == [r EXCEPT !.pc = "done", !.log = Append(@, m)]
  IN
  /\ r.pc = "dispatch"
  /\ IF res.action = "rate_limit"
       THEN /\ req' = [req EXCEPT ![t] = Reply("reply:rate_limit")]
            /\ UNCHANGED memory
     ELSE IF low_confidence(res.confidence)
       THEN /\ req' = [req EXCEPT ![t] = Reply("reply:low_confidence")]
            /\ UNCHANGED memory
     ELSE IF res.action = "download"
       THEN /\ req' = [req EXCEPT ![t] =
                 IF res.video_url \in {None, ""}
                   THEN Reply("reply:no_url")
                   ELSE [r EXCEPT !.pc = "vd", !.caller = "vd",
                                  !.url = res.video_url]]
            /\ UNCHANGED memory
     ELSE IF res.action = "trim"
       THEN LET got == get_video_memory(memory, r.user, now)
                r2 == IF res.use_last_video
                        THEN [r EXCEPT !.got = got, !.before = memory[r.user],
                                       !.getTime = now,
                                       !.purged = (@ \/ purge_expired(memory, r.user, now) # memory),
                                       !.log = Append(@, "memget")]
                        ELSE r
            IN /\ memory' = IF res.use_last_video
                              THEN purge_expired(memory, r.user, now)
                              ELSE memory
               /\ req' = [req EXCEPT ![t] =
                    IF handle_trim_only_action(res.use_last_video, got) = "tfm"
                      THEN [r2 EXCEPT !.pc = "tfm", !.caller = "tfm"]
                      ELSE [r2 EXCEPT !.pc = "done",
                                      !.log = Append(@, "reply:clarify_trim")]]
     ELSE IF res.action = "download_and_trim"
       THEN /\ req' = [req EXCEPT ![t] =
                 IF handle_download_trim_action(res) # ""
                   THEN Reply(handle_download_trim_action(res))
                   ELSE [r EXCEPT !.pc = "vdt", !.caller = "vdt",
                                  !.url = res.video_url,
                                  !.range = <<res.start_time, res.end_time>>]]
            /\ UNCHANGED memory
     ELSE /\ req' = [req EXCEPT ![t] = Reply("reply:unknown")]
          /\ UNCHANGED memory
  /\ UNCHANGED <<sideVars, llmConfigured, localApi, now, files, reqCount>>

\* ---------------------------------------------------------------- handlers
\* The time strings the regular expression \d+(?::\d+)? matches as a whole
\* token, and their parts as time_str.split(":") gives them.
TimeTokens == {"5", "10", "15", "20", "0:05", "1:30", "2:45"}

TimeParts(tok) ==
  CASE tok = "5" -> <<5>> [] tok = "10" -> <<10>> [] tok = "15" -> <<15>>
    [] tok = "20" -> <<20>> [] tok = "0:05" -> <<0, 5>>
    [] tok = "1:30" -> <<1, 30>> [] tok = "2:45" -> <<2, 45>>
    [] OTHER -> <<0>>

\* The tokens of the form A-B the third pattern matches, with A and B.
RangeTokens == {"10-20", "20-10", "1:30-2:45"}

RangeParts(tok) ==
  CASE tok = "10-20" -> <<"10", "20">>
    [] tok = "20-10" -> <<"20", "10">>
    [] tok = "1:30-2:45" -> <<"1:30", "2:45">>
    [] OTHER -> <<"5", "5">>

\* VideoProcessor._parse_time_string: "m:s" is m * 60 + s, "h:m:s" is
\* h * 3600 + m * 60 + s, anything else is int(time_str).
_parse_time_string(tok) ==
  LET parts == TimeParts(tok) IN
  IF Len(parts) = 2 THEN parts[1] * 60 + parts[2]
  ELSE IF Len(parts) = 3 THEN parts[1] * 3600 + parts[2] * 60 + parts[3]
  ELSE parts[1]

IsNum(tok) == tok \in TimeTokens

\* "m:s" tokens only: the (\d+:\d+) groups of the fourth and fifth pattern.
IsClock(tok) == IsNum(tok) /\ Len(TimeParts(tok)) = 2

MatchAt(text, i, first, seps) ==
  /\ i + 3 <= Len(text)
  /\ first \in TokEndsWith(text[i])
  /\ IsNum(text[i + 1]) /\ text[i + 2] \in seps /\ IsNum(text[i + 3])

\* parse_time_request with the end clamped to the duration of the video.
parse_time_request_clamped(text, video_duration) ==
  LET P2(i) == MatchAt(text, i, "ot", {"do"})
      Left(P(_)) == CHOOSE i \in 1..Len(text) : P(i) /\ \A j \in 1..(i - 1) : ~P(j)
      Clamp(e) == IF video_duration > 0 /\ e > video_duration
                    THEN video_duration ELSE e
      At(i) == <<_parse_time_string(text[i + 1]),
                 Clamp(_parse_time_string(text[i + 3]))>>
  IN IF \E i \in 1..Len(text) : P2(i) THEN At(Left(P2)) ELSE <<>>

\* VideoProcessor.parse_time_request on the token text: the five patterns
\* in the order of the list, for each the leftmost match; the first pattern
\* that matches gives the result (_parse_time_string does not fail on what
\* the groups match).  video_duration is NoTime for None; an end beyond it
\* is logged and returned all the same.  The value is <<start, end>>, or
\* <<>> for None.
parse_time_request(text, video_duration) ==
  LET P1(i) == MatchAt(text, i, "s", {"po", "do"})
      P2(i) == MatchAt(text, i, "ot", {"do"})
      P3(i) == text[i] \in RangeTokens
      P4(i) == P1(i) /\ IsClock(text[i + 1]) /\ IsClock(text[i + 3])
      P5(i) == P2(i) /\ IsClock(text[i + 1]) /\ IsClock(text[i + 3])
      Left(P(_)) == CHOOSE i \in 1..Len(text) : P(i) /\ \A j \in 1..(i - 1) : ~P(j)
      Groups(s, e) ==
        LET start_time == _parse_time_string(s)
            end_time == _parse_time_string(e)
        IN IF video_duration > 0 /\ end_time > video_duration
             THEN <<start_time, end_time>>
             ELSE <<start_time, end_time>>
      At(i) == Groups(text[i + 1], text[i + 3])
      InToken(i) == Groups(RangeParts(text[i])[1], RangeParts(text[i])[2])
  IN IF \E i \in 1..Len(text) : P1(i) THEN At(Left(P1))
     ELSE IF \E i \in 1..Len(text) : P2(i) THEN At(Left(P2))
     ELSE IF \E i \in 1..Len(text) : P3(i) THEN InToken(Left(P3))
     ELSE IF \E i \in 1..Len(text) : P4(i) THEN At(Left(P4))
     ELSE IF \E i \in 1..Len(text) : P5(i) THEN At(Left(P5))
     ELSE <<>>

\* The signature download_video(self, url, progress_callback=None): the
\* numbers of positional arguments a call may pass.
download_video_accepts(nargs) == nargs \in {1, 2}

\* What each handler passes to download_video.  handle_video_download and
\* handle_video_download_trim unpack the pair progress_callback_factory
\* returns and pass both callbacks after the URL; the other handlers pass
\* the pair itself as the progress callback.
ArgsPassed(caller) == IF caller \in {"vd", "vdt"} THEN 3 ELSE 2
CallbackPassed(caller) == IF caller \in {"vd", "vdt"} THEN "callable" ELSE "tuple"

FullHandlers == {"vd", "vr"}
TrimHandlers == {"vdt", "cr", "tfm"}

\* The call of download_video as if it stood outside the handler's try
\* block: the TypeError leaves the handler and nothing more is sent.
CallDownloadVideo_outside_try(r, url) ==
  IF download_video_accepts(ArgsPassed(r.caller))
    THEN [r EXCEPT !.pc = "download_video", !.url = url,
                   !.cb = CallbackPassed(r.caller)]
    ELSE [r EXCEPT !.pc = "done"]

\* The call of download_video inside the handler's try block: binding the
\* arguments raises TypeError when the signature does not accept them, and
\* the handler's except branch answers with the error message.
CallDownloadVideo(r, url) ==
  IF download_video_accepts(ArgsPassed(r.caller))
    THEN [r EXCEPT !.pc = "download_video", !.url = url,
                   !.cb = CallbackPassed(r.caller)]
    ELSE [r EXCEPT !.pc = "done", !.log = Append(@, "reply:error")]

\* handle_video_download, handle_video_download_trim, handle_video_request
\* and handle_combined_request from their first line to the call of
\* download_video.
EnterHandler(t) ==
  LET r == req[t]
      status == [r EXCEPT !.log = Append(@, "reply:status")]
  IN
  /\ r.pc \in {"vd", "vdt", "vr", "cr"}
  /\ req' = [req EXCEPT ![t] =
       CASE r.pc \in {"vd", "vdt"} -> CallDownloadVideo(status, r.url)
         [] r.pc = "vr" ->
              IF extract_video_url(r.text) = None
                THEN [r EXCEPT !.pc = "done", !.log = Append(@, "reply:no_link")]
                ELSE CallDownloadVideo(r, extract_video_url(r.text))
         [] r.pc = "cr" ->
              IF parse_time_request(r.text, NoTime) = <<>>
                THEN [r EXCEPT !.pc = "done",
                               !.log = Append(@, "reply:no_time_range")]
                ELSE CallDownloadVideo(
                       [r EXCEPT !.range = parse_time_request(r.text, NoTime)],
                       r.url)]
  /\ UNCHANGED <<sideVars, llmConfigured, localApi, memory, now, files, reqCount>>

\* handle_trim_from_memory from its first line to the call of
\* download_video: the time range comes from a second model call.
TrimFromMemory(t) ==
  LET r == req[t] IN
  /\ r.pc = "tfm"
  /\ \E reply \in ModelReplies :
       LET range == extract_time_range(r.text, reply)
           r2 == [r EXCEPT !.log = Append(@, "llm"), !.range = range]
       IN req' = [req EXCEPT ![t] =
            IF range = <<>>
              THEN [r2 EXCEPT !.pc = "done",
                              !.log = Append(@, "reply:no_time_range")]
              ELSE CallDownloadVideo(r2, (CHOOSE m \in r.got : TRUE).video_url)]
  /\ UNCHANGED <<sideVars, llmConfigured, localApi, memory, now, files, reqCount>>

\* --------------------------------------------------------------- pipeline
\* VideoProcessor._is_valid_video_url: scheme and netloc are non-empty.
_is_valid_video_url(url) == TokHasNetloc(url)

\* download_video hands its result to the code after the call.
ReturnFromDownload(r) ==
  [r EXCEPT !.pc = IF r.caller = "api" THEN "done" ELSE "after_download"]

StartedNote(k) ==
  CASE k = 1 -> "started1" [] k = 2 -> "started2" [] k = 3 -> "started3"
    [] OTHER -> "started4"

\* Calling the progress callback: None is skipped, a function is called,
\* and calling the pair raises TypeError.
Notify(r, note) ==
  IF r.cb = "callable" THEN [r EXCEPT !.notes = Append(@, note)] ELSE r

\* download_video up to the first resolver stage (or up to the download when
\* there is no source handler).  An exception of extract_video_url is caught
\* by download_video, which then returns None.
DownloadVideo(t) ==
  LET r == req[t] IN
  /\ r.pc = "download_video"
  /\ req' = [req EXCEPT ![t] =
       IF ~_is_valid_video_url(r.url) THEN ReturnFromDownload(r)
       ELSE IF llmConfigured
         THEN IF r.cb = "tuple"
                THEN ReturnFromDownload([r EXCEPT !.log = Append(@, "resolver")])
                ELSE [Notify(r, StartedNote(1)) EXCEPT
                        !.pc = "stage", !.stageIdx = 1,
                        !.log = Append(@, "resolver")]
         ELSE [r EXCEPT !.pc = "ytdlp"]]
  /\ UNCHANGED <<sideVars, llmConfigured, localApi, memory, now, files, reqCount>>

\* ---------------------------------------------------------------- resolver
UrlFound == "https://cdn.example.com/v.mp4"

\* The stages in the order of their method names (_stage2 before _stage3).
StageOrder_by_name == <<"direct", "page_analysis", "browser", "codegen">>

\* The stage methods in the order extract_video_url calls them:
\*   "direct"         _stage1_direct_yt_dlp       (test download)
\*   "browser"        _stage3_playwright_search   (headless browser)
\*   "page_analysis"  _stage2_llm_find_video      (model reads the page)
\*   "codegen"        _stage4_llm_generate_code   (model writes code)
StageOrder == <<"direct", "browser", "page_analysis", "codegen">>

\* download_video going on to the download with the URL it was given.
extraction_failed_then_download(r) == [r EXCEPT !.pc = "ytdlp"]

\* download_video when extract_video_url returned (None, message): it logs
\* the message and returns None.
extraction_failed(r) == ReturnFromDownload(r)

\* One stage of VideoSourceHandler.extract_video_url; out is what the stage
\* method does:
\*   "found"   it returns a URL that an extractor call of the stage accepted
\*             (the test download of stage 1, which returns the input URL;
\*             the metadata probe of the browser stage),
\*   "found_by_format"  it returns a URL that passed _is_valid_video_url
\*             only (scheme and host are present),
\*   "absent"  it returns (None, ""),
\*   "raise"   it raises an exception its except clause does not name.
\* After "found" the success notification is sent and download_video goes
\* on to the download with the URL found; after "absent" the next stage is
\* announced and entered, or (None, message) is returned after the last;
\* an exception ends extract_video_url and download_video returns None.
StageStep(r, out) ==
  LET k == r.stageIdx
      r1 == [r EXCEPT !.stages = Append(@, StageOrder[k]),
                      !.outcomes = Append(@, out),
                      !.log = Append(@, "stage")]
  IN CASE out \in {"found", "found_by_format"} ->
            [Notify(r1, "found") EXCEPT
               !.pc = "ytdlp", !.method = StageOrder[k],
               !.tested = (out = "found"),
               !.url = IF StageOrder[k] = "direct" THEN r.url ELSE UrlFound]
       [] out = "absent" /\ k < Len(StageOrder) ->
            [Notify(r1, StartedNote(k + 1)) EXCEPT !.stageIdx = k + 1]
       [] out = "absent" ->
            extraction_failed([r1 EXCEPT !.extFail = TRUE])
       [] OTHER ->
            ReturnFromDownload([r1 EXCEPT !.extFail = TRUE])

Resolving(t, method) ==
  req[t].pc = "stage" /\ StageOrder[req[t].stageIdx] = method

\* What the test download of stage 1 leaves behind:
\*   "file"        a non-empty file under the name prepare_filename gives,
\*   "empty_file"  a file of size 0 under that name,
\*   "info_only"   the metadata and no file,
\*   "failed"      nothing: yt-dlp raised.
TestDownloads == {"file", "empty_file", "info_only", "failed"}

\* The file of the test download, in the stage's own temporary directory.
TestFile(r) == [req |-> r.id, kind |-> "test"]

\* Stage 1 taking the extracted metadata for a success as well.
stage1_succeeds_on_info(probe) == probe \in {"file", "info_only"}

\* test_download returns the file name only for an existing file of size
\* above 0, and stage 1 succeeds only with a file name.
stage1_succeeds(probe) == probe = "file"

\* The test download of _stage1_direct_yt_dlp, run in a worker thread.
test_download(t) ==
  LET r == req[t] IN
  /\ Resolving(t, "direct") /\ r.probe = "none"
  /\ \E out \in TestDownloads :
       /\ req' = [req EXCEPT ![t].probe = out]
       /\ files' = IF out \in {"file", "empty_file"}
                     THEN files \cup {TestFile(r)} ELSE files
  /\ UNCHANGED <<sideVars, llmConfigured, localApi, memory, now, reqCount>>

\* _stage1_direct_yt_dlp after the test download: it unlinks the file, the
\* temporary directory is removed with whatever it holds, and the input URL
\* is returned when there was a non-empty file.  Every exception is caught.
_stage1_direct_yt_dlp(t) ==
  LET r == req[t] IN
  /\ Resolving(t, "direct") /\ r.probe # "none"
  /\ req' = [req EXCEPT ![t] =
       StageStep(r, IF stage1_succeeds(r.probe) THEN "found" ELSE "absent")]
  /\ files' = files \ {TestFile(r)}
  /\ UNCHANGED <<sideVars, llmConfigured, localApi, memory, now, reqCount>>

\* _stage3_playwright_search catches every exception.  The src of a
\* visible video element is returned after the format validation; a URL
\* collected from the page content is returned after extract_info accepted
\* it.
_stage3_playwright_search(t) ==
  /\ Resolving(t, "browser")
  /\ \E out \in {"found", "found_by_format", "absent"} :
       req' = [req EXCEPT ![t] = StageStep(req[t], out)]
  /\ UNCHANGED <<sideVars, llmConfigured, localApi, memory, now, files, reqCount>>

\* _stage2_llm_find_video catches aiohttp.ClientError, json.JSONDecodeError,
\* KeyError and ValueError only.  The first URL the model names is returned
\* after the format validation.
_stage2_llm_find_video(t) ==
  /\ Resolving(t, "page_analysis")
  /\ \E out \in {"found_by_format", "absent", "raise"} :
       req' = [req EXCEPT ![t] = StageStep(req[t], out)]
  /\ UNCHANGED <<sideVars, llmConfigured, localApi, memory, now, files, reqCount>>

\* _stage4_llm_generate_code has the same except clause.
_stage4_llm_generate_code(t) ==
  /\ Resolving(t, "codegen")
  /\ \E out \in {"found_by_format", "absent", "raise"} :
       req' = [req EXCEPT ![t] = StageStep(req[t], out)]
  /\ UNCHANGED <<sideVars, llmConfigured, localApi, memory, now, files, reqCount>>

\* ------------------------------------------------------ download and trim
File(r, kind) == [req |-> r.id, kind |-> kind]

\* The ladder with the primary selector tried once more at its end.
FormatLadder_retry_primary ==
  <<"best/bestvideo+bestaudio/best",
    "best[height<=1080]", "best[height<=720]", "best[height<=480]",
    "worst", "bestaudio", "best/bestvideo+bestaudio/best">>

\* The ladder with 720p tried before 1080p.
FormatLadder_720_first ==
  <<"best/bestvideo+bestaudio/best",
    "best[height<=720]", "best[height<=1080]", "best[height<=480]",
    "worst", "bestaudio">>

\* The format selectors: the one of _get_yt_dlp_options, then the list
\* fallback_formats of _download_with_fallback_formats in its order.
FormatLadder ==
  <<"best/bestvideo+bestaudio/best",
    "best[height<=1080]", "best[height<=720]", "best[height<=480]",
    "worst", "bestaudio">>

\* One download attempt with the next selector of the ladder.  got tells
\* whether a non-empty file materialized (an exception of the extractor is
\* caught and counts as none).  With a file, download_video generates the
\* thumbnail (written or not) and returns the path; without one the next
\* selector is tried, and after the last one None is returned.
Attempt(t, got) ==
  LET r == req[t]
      k == Len(r.formats) + 1
      r1 == [r EXCEPT !.formats = Append(@, FormatLadder[k]),
                      !.log = IF k = 1 THEN Append(@, "ytdlp") ELSE @]
  IN IF got
       THEN \E size \in Sizes, thumb \in BOOLEAN :
              /\ req' = [req EXCEPT ![t] =
                   ReturnFromDownload([r1 EXCEPT !.video_path = File(r, "video"),
                                                 !.video_size = size])]
              /\ files' = files \cup {File(r, "video")}
                            \cup (IF thumb THEN {File(r, "thumb")} ELSE {})
       ELSE /\ req' = [req EXCEPT ![t] =
                 IF k < Len(FormatLadder)
                   THEN r1
                   ELSE ReturnFromDownload([r1 EXCEPT !.extFail = TRUE])]
            /\ UNCHANGED files

\* _download_with_yt_dlp: the attempt with the primary selector.
YtDlp(t) ==
  /\ req[t].pc = "ytdlp"
  /\ req[t].formats = <<>>
  /\ \E got \in BOOLEAN : Attempt(t, got)
  /\ UNCHANGED <<sideVars, llmConfigured, localApi, memory, now, reqCount>>

\* _download_with_fallback_formats: one iteration of its loop.
_download_with_fallback_formats(t) ==
  /\ req[t].pc = "ytdlp"
  /\ req[t].formats # <<>>
  /\ \E got \in BOOLEAN : Attempt(t, got)
  /\ UNCHANGED <<sideVars, llmConfigured, localApi, memory, now, reqCount>>

\* The reply a size verdict makes the handler send ("" for none).
SizeReply(verdict) == IF verdict[2] = "" THEN <<>> ELSE <<"reply:size">>

\* The handler after download_video returned.
\*  - no file: the failure reply;
\*  - full download: the size check; a rejected file makes the handler
\*    return at once, an accepted one is sent;
\*  - trim handlers: trim_video is called.
AfterDownload(t) ==
  LET r0 == req[t]
      r == [r0 EXCEPT !.formats = <<>>]
      verdict == check_file_size_for_telegram(r.video_size, localApi)
  IN
  /\ r0.pc = "after_download"
  /\ req' = [req EXCEPT ![t] =
       IF ~(r.video_path # NoFile /\ r.video_path \in files)
         THEN [r EXCEPT !.pc = "done", !.log = Append(@, "reply:download_failed")]
       ELSE IF r.caller \in FullHandlers
         THEN IF ~verdict[1]
                THEN [r EXCEPT !.pc = "done", !.log = @ \o <<"reply:too_big">>]
                ELSE [r EXCEPT !.pc = "send",
                               !.log = @ \o SizeReply(verdict) \o <<"sizecheck">>]
         ELSE [r EXCEPT !.pc = "trim_video", !.log = Append(@, "reply:trimming")]]
  /\ UNCHANGED <<sideVars, llmConfigured, localApi, memory, now, files, reqCount>>

\* VideoProcessor.trim_video(video_path, start, end).  The tool is not run
\* for start >= end or for a missing input.  Otherwise out is what the tool
\* does:
\*   "ok"              exit 0 and a non-empty output,
\*   "empty_output"    exit 0 and a zero-length output file,
\*   "failed"          non-zero exit, no output file,
\*   "failed_partial"  non-zero exit, a partial output file,
\*   "exception"       running the tool raised; an output file, if any, is
\*                     unlinked by the except branch.
\* Only the except branch removes an output file.
trim_runs_tool_on_equal(r) ==
  /\ ~(r.range[1] > r.range[2])
  /\ r.video_path \in files

trim_runs_tool(r) ==
  /\ ~(r.range[1] >= r.range[2])
  /\ r.video_path \in files

TrimVideo(t) ==
  LET r == req[t]
      back == IF r.caller = "api" THEN "done" ELSE "after_trim"
      r1 == [r EXCEPT !.pc = back]
  IN
  /\ r.pc = "trim_video"
  /\ IF ~trim_runs_tool(r)
       THEN /\ req' = [req EXCEPT ![t] = r1]
            /\ UNCHANGED files
       ELSE \E out \in {"ok", "empty_output", "failed", "failed_partial", "exception"} :
              \E size \in Sizes :
                /\ out # "ok" => size = 40
                /\ req' = [req EXCEPT ![t] =
                     IF out = "ok"
                       THEN [r1 EXCEPT !.trimmed_path = File(r, "trimmed"),
                                       !.trimmed_size = size,
                                       !.log = Append(@, "trim")]
                       ELSE [r1 EXCEPT !.extFail = TRUE, !.log = Append(@, "trim")]]
                /\ files' = IF out \in {"ok", "empty_output", "failed_partial"}
                              THEN files \cup {File(r, "trimmed")}
                              ELSE files
  /\ UNCHANGED <<sideVars, llmConfigured, localApi, memory, now, reqCount>>

\* The clean-up loops of the handlers: the paths they unlink.
Unlinked(r) ==
  IF r.caller \in FullHandlers THEN {r.video_path}
  ELSE {r.video_path, r.trimmed_path}

\* A trim handler after trim_video returned: no clip gives the failure
\* reply; a rejected clip is not sent and both files are unlinked; an
\* accepted clip is sent.
AfterTrim(t) ==
  LET r == req[t]
      verdict == check_file_size_for_telegram(r.trimmed_size, localApi)
  IN
  /\ r.pc = "after_trim"
  /\ IF ~(r.trimmed_path # NoFile /\ r.trimmed_path \in files)
       THEN /\ req' = [req EXCEPT ![t] =
                 [r EXCEPT !.pc = "done", !.log = Append(@, "reply:trim_failed")]]
            /\ UNCHANGED files
     ELSE IF ~verdict[1]
       THEN /\ req' = [req EXCEPT ![t] =
                 [r EXCEPT !.pc = "done", !.log = @ \o <<"reply:too_big", "unlink">>]]
            /\ files' = files \ Unlinked(r)
     ELSE /\ req' = [req EXCEPT ![t] =
               [r EXCEPT !.pc = "send",
                         !.log = @ \o SizeReply(verdict) \o <<"sizecheck">>]]
          /\ UNCHANGED files
  /\ UNCHANGED <<sideVars, llmConfigured, localApi, memory, now, reqCount>>

\* save_video_info is called by the full-download handlers alone, when the
\* message sent carries a video.
saves_entry_any_handler(caller, out) == out = "video"

\* saves_entry without the test of sent_message.video.
saves_entry_without_video(caller, out) == caller \in FullHandlers

saves_entry(caller, out) == out = "video" /\ caller \in FullHandlers

\* reply_video and what follows it in the handler.  out is what the
\* transport does:
\*   "video"     the message sent carries a video,
\*   "no_video"  the message sent carries no video attribute,
\*   "raise"     reply_video raises; the handler's except branch replies
\*               with the error message and returns.
\* After a full download the entry is saved when the sent message carries a
\* video; then the handler unlinks its files.
Send(t) ==
  LET r == req[t]
      f == IF r.caller \in FullHandlers THEN r.video_path ELSE r.trimmed_path
      saves(out) == saves_entry(r.caller, out)
  IN
  /\ r.pc = "send"
  /\ \E out \in {"video", "no_video", "raise"} :
       IF out = "raise"
         THEN /\ req' = [req EXCEPT ![t] =
                   [r EXCEPT !.pc = "done", !.extFail = TRUE,
                             !.log = Append(@, "reply:error")]]
              /\ UNCHANGED <<memory, files>>
         ELSE /\ req' = [req EXCEPT ![t] =
                   [r EXCEPT !.pc = "done", !.sent = f,
                             !.log = @ \o <<"send_video">>
                                       \o (IF out = "no_video"
                                             THEN <<"no_video_attr">> ELSE <<>>)
                                       \o (IF saves(out) THEN <<"memsave">> ELSE <<>>)
                                       \o <<"unlink">>]]
              /\ memory' = IF saves(out)
                             THEN save_video_info(memory, r.user, r.url, r.video_path, now)
                             ELSE memory
              /\ files' = files \ Unlinked(r)
  /\ UNCHANGED <<sideVars, llmConfigured, localApi, now, reqCount>>

\* ------------------------------------------------ calls made by a unit test
Start(t, entry) == [Idle EXCEPT !.entry = entry, !.id = reqCount + 1]

\* video_memory.save_video_info(user, url, ...).
ApiSave(t) ==
  /\ Free(t)
  /\ \E u \in Users, url \in {UrlA, UrlB} :
       /\ memory' = save_video_info(memory, u, url, NoFile, now)
       /\ req' = [req EXCEPT ![t] =
            [Start(t, "save") EXCEPT !.pc = "done", !.user = u, !.url = url,
                                     !.log = <<"memsave">>]]
  /\ reqCount' = reqCount + 1
  /\ UNCHANGED <<sideVars, llmConfigured, localApi, now, files>>

\* video_memory.get_video_memory(user).
ApiGet(t) ==
  /\ Free(t)
  /\ \E u \in Users :
       /\ memory' = purge_expired(memory, u, now)
       /\ req' = [req EXCEPT ![t] =
            [Start(t, "get") EXCEPT !.pc = "done", !.user = u,
                                    !.got = get_video_memory(memory, u, now),
                                    !.before = memory[u], !.getTime = now,
                                    !.purged = (purge_expired(memory, u, now) # memory),
                                    !.log = <<"memget">>]]
  /\ reqCount' = reqCount + 1
  /\ UNCHANGED <<sideVars, llmConfigured, localApi, now, files>>

\* video_memory.clear_memory(user).
ApiClear(t) ==
  /\ Free(t)
  /\ \E u \in Users :
       /\ memory' = clear_memory(memory, u)
       /\ req' = [req EXCEPT ![t] =
            [Start(t, "clear") EXCEPT !.pc = "done", !.user = u,
                                      !.log = <<"memclear">>]]
  /\ reqCount' = reqCount + 1
  /\ UNCHANGED <<sideVars, llmConfigured, localApi, now, files>>

\* video_processor.download_video(url) and download_video(url, callback).
ApiDownload(t) ==
  /\ Free(t)
  /\ \E url \in {UrlA, UrlNoHost}, cb \in {"none", "callable"} :
       req' = [req EXCEPT ![t] =
         [Start(t, "download_video") EXCEPT !.pc = "download_video",
            !.caller = "api", !.url = url, !.cb = cb]]
  /\ reqCount' = reqCount + 1
  /\ UNCHANGED <<sideVars, llmConfigured, localApi, memory, now, files>>

\* video_processor.trim_video(path, start, end) on a downloaded file or on
\* a path that does not exist.
ApiTrim(t) ==
  /\ Free(t)
  /\ \E path \in {f \in files : f.kind = "video"} \cup {NoFile},
        range \in {<<10, 20>>, <<10, 10>>, <<20, 10>>} :
       req' = [req EXCEPT ![t] =
         [Start(t, "trim_video") EXCEPT !.pc = "trim_video",
            !.caller = "api", !.video_path = path, !.range = range]]
  /\ reqCount' = reqCount + 1
  /\ UNCHANGED <<sideVars, llmConfigured, localApi, memory, now, files>>

\* handle_combined_request(message, text, url), which handle_trim_request
\* calls with the URL it extracted from the text.
ApiCombined(t) ==
  /\ Free(t)
  /\ \E u \in Users, text \in Texts :
       /\ extract_video_url(text) # None
       /\ req' = [req EXCEPT ![t] =
            [Start(t, "handle_combined_request") EXCEPT !.pc = "cr",
               !.caller = "cr", !.user = u, !.text = text,
               !.url = extract_video_url(text)]]
  /\ reqCount' = reqCount + 1
  /\ UNCHANGED <<sideVars, llmConfigured, localApi, memory, now, files>>

\* ---------------------------------------------------------- specifications
\* ------------------------------------------------------------- event loop
\* aiogram runs the handler of every update as a task of one asyncio event
\* loop: a coroutine keeps the loop's thread until it awaits something that
\* is not finished.  The external calls the handling of a message can reach,
\* in program order:
CallSites ==
  <<"classify", "stage1_test_download", "stage3_browser",
    "stage3_extract_info", "stage2_fetch", "stage2_chat", "stage4_fetch",
    "stage4_chat", "download", "fallback_download", "trim",
    "get_video_dimensions", "generate_thumbnail">>

\* How the source makes each call:
\*   "thread"  await asyncio.to_thread(f): f runs in a worker thread,
\*   "await"   await of a coroutine of an asyncio library (aiohttp, the
\*             async playwright API, asyncio.create_subprocess_exec),
\*   "sync"    a plain call of a blocking function in the coroutine's body.
CallMode(site) ==
  CASE site = "classify" -> "sync"
    [] site = "stage1_test_download" -> "thread"
    [] site = "stage3_browser" -> "await"
    [] site = "stage3_extract_info" -> "sync"
    [] site = "stage2_fetch" -> "await"
    [] site = "stage2_chat" -> "sync"
    [] site = "stage4_fetch" -> "await"
    [] site = "stage4_chat" -> "sync"
    [] site = "download" -> "thread"
    [] site = "fallback_download" -> "thread"
    [] site = "trim" -> "thread"
    [] site = "get_video_dimensions" -> "await"
    [] site = "generate_thumbnail" -> "await"

\* Who holds the loop's thread while coroutine c is in the call at site k.
HolderDuring(c, k) ==
  IF CallMode(CallSites[k]) = "sync" THEN c ELSE NoOwner

\* The loop runs coroutine c from where it stands up to its next external
\* call (any later call site: the sites in between are on branches not
\* taken) and the call begins.
CoCall(c) ==
  /\ loopOwner = NoOwner
  /\ coro[c].phase = "ready"
  /\ \E k \in (coro[c].at + 1)..Len(CallSites) :
       /\ coro' = [coro EXCEPT ![c] = [at |-> k, phase |-> "calling"]]
       /\ loopOwner' = HolderDuring(c, k)
  /\ UNCHANGED <<llmConfigured, localApi, memory, now, files, reqCount, req,
                 parse, page, scan>>

\* The external call of coroutine c is over and c goes on: after a
\* synchronous call in the same turn of the loop, otherwise when the loop
\* is free to resume it.
CoResume(c) ==
  /\ coro[c].phase = "calling"
  /\ loopOwner = HolderDuring(c, coro[c].at)
  /\ coro' = [coro EXCEPT ![c].phase = "ready"]
  /\ loopOwner' = NoOwner
  /\ UNCHANGED <<llmConfigured, localApi, memory, now, files, reqCount, req,
                 parse, page, scan>>

\* The handler returns.
CoReturn(c) ==
  /\ loopOwner = NoOwner
  /\ coro[c].phase = "ready" /\ coro[c].at > 0
  /\ coro' = [coro EXCEPT ![c].phase = "returned"]
  /\ UNCHANGED <<llmConfigured, localApi, memory, now, files, reqCount, req,
                 loopOwner, parse, page, scan>>

\* ----------------------------------------------------------------- parser
\* The texts given to parse_time_request: every "s|ot A po|do B" over the
\* time tokens, the A-B tokens, and the messages of the bot.
ParseTexts ==
  { <<first, a, sep, b>> : first \in {"s", "ot"}, a \in TimeTokens,
                           sep \in {"po", "do"}, b \in TimeTokens }
  \cup { <<"obrezh", tok>> : tok \in RangeTokens }
  \cup Texts

\* The optional video_duration argument, in seconds; NoTime is None.
Durations == {NoTime, 60, 100, 200}

InitParse ==
  /\ llmConfigured = FALSE
  /\ localApi = FALSE
  /\ memory = [u \in Users |-> {}]
  /\ now = 0
  /\ files = {}
  /\ reqCount = 0
  /\ req = [t \in Tasks |-> Idle]
  /\ loopOwner = NoOwner
  /\ coro = [c \in Coros |-> NotStarted]
  /\ page = NoPage
  /\ scan = NoScan
  /\ parse \in [text : ParseTexts, video_duration : Durations,
                result : {<<>>}, returned : {FALSE}]

\* One call of parse_time_request(text, video_duration).
ParseTimeRequest ==
  /\ ~parse.returned
  /\ parse' = [parse EXCEPT
                 !.result = parse_time_request(parse.text, parse.video_duration),
                 !.returned = TRUE]
  /\ UNCHANGED <<llmConfigured, localApi, memory, now, files, reqCount, req,
                 loopOwner, coro, page, scan>>

\* ---------------------------------------------------------- browser stage
\* The candidates _stage3_playwright_search meets on a page.  A candidate is
\* a URL with what the two tests say about it: format is the answer of
\* _is_valid_video_url (for a scripted candidate, of the http(s) prefix
\* test), probe is whether ydl.extract_info(url, download=False) gives
\* metadata.  What the extractor accepts is a well-formed URL.
Candidates ==
  { [format |-> TRUE, probe |-> TRUE], [format |-> TRUE, probe |-> FALSE],
    [format |-> FALSE, probe |-> FALSE] }

SeqsUpTo(S, n) == UNION { [1..k -> S] : k \in 0..n }

\* The scripted list tests video_urls[:10].
ProbeLimit == 10

\* Lists longer than the limit: only the last candidate is playable.
LongLists ==
  { [k \in 1..n |-> IF k = n THEN [format |-> TRUE, probe |-> TRUE]
                             ELSE [format |-> TRUE, probe |-> FALSE]] :
      n \in {ProbeLimit, ProbeLimit + 1} }

\* The src of a visible element with a metadata probe demanded as well.
DomAccepted_probed(c) == c.format /\ c.probe

\* The src of a visible element matched by a selector is returned when
\* _is_valid_video_url accepts it.
DomAccepted(c) == c.format

\* A URL collected by the page script is returned when it starts with
\* http:// or https:// and extract_info gave metadata for it.
ScriptedAccepted(c) == c.format /\ c.probe

\* The least of the accepted positions, or 0 when there is none.
FirstAccepted(hits) ==
  IF hits = {} THEN 0 ELSE CHOOSE i \in hits : \A j \in hits : i <= j

InitPage ==
  /\ llmConfigured = TRUE
  /\ localApi = FALSE
  /\ memory = [u \in Users |-> {}]
  /\ now = 0
  /\ files = {}
  /\ reqCount = 0
  /\ req = [t \in Tasks |-> Idle]
  /\ loopOwner = NoOwner
  /\ coro = [c \in Coros |-> NotStarted]
  /\ parse = NoCall
  /\ scan = NoScan
  /\ page \in [dom : SeqsUpTo(Candidates, MaxCandidates),
               scripted : SeqsUpTo(Candidates, MaxCandidates) \cup LongLists,
               from : {"none"}, at : {0}, returned : {FALSE}]

\* One run of _stage3_playwright_search on a page that loaded: the selector
\* loop, then the loop over the first ten collected URLs.  from and at name
\* the candidate returned; from is "none" for (None, "").
PlaywrightSearch ==
  LET tried == IF Len(page.scripted) < ProbeLimit
                 THEN Len(page.scripted) ELSE ProbeLimit
      i == FirstAccepted({k \in 1..Len(page.dom) : DomAccepted(page.dom[k])})
      j == FirstAccepted({k \in 1..tried : ScriptedAccepted(page.scripted[k])})
  IN
  /\ ~page.returned
  /\ page' = [page EXCEPT
                !.from = IF i > 0 THEN "dom"
                         ELSE IF j > 0 THEN "scripted" ELSE "none",
                !.at = IF i > 0 THEN i ELSE j,
                !.returned = TRUE]
  /\ UNCHANGED <<llmConfigured, localApi, memory, now, files, reqCount, req,
                 loopOwner, coro, parse, scan>>

\* ------------------------------------------------------ download attempt
\* What one extractor run leaves for the closure download() of
\* _download_with_yt_dlp ("primary") or fallback_download() of
\* _download_with_fallback_formats ("ladder") to look at:
\*   extractor  "ok", or "raise" when extract_info, prepare_filename or
\*              download raised (the options set ignoreerrors, so a failed
\*              download does not raise by itself);
\*   expected   the file under prepare_filename(info) in the request's own
\*              download directory: "missing", "empty" or "full";
\*   sibling    another file with a video extension in that directory;
\*   foreign    the video files of other requests elsewhere under TEMP_DIR
\*              (their download directories and trimmed outputs), each empty
\*              or not and modified within the last 300 seconds or not.
FileStates == {"missing", "empty", "full"}

ForeignFiles == [owner : {"other"}, empty : BOOLEAN, recent : BOOLEAN]

\* Path(f).exists() and Path(f).stat().st_size > 0.
IsDownloaded(state) == state = "full"

\* The recursive scan of output_path.parent: a non-empty video file
\* modified less than 300 seconds ago, in whatever directory.
RecentScan(foreign) == {f \in foreign : f.recent /\ ~f.empty}

InitScan ==
  /\ llmConfigured = FALSE
  /\ localApi = FALSE
  /\ memory = [u \in Users |-> {}]
  /\ now = 0
  /\ files = {}
  /\ reqCount = 0
  /\ req = [t \in Tasks |-> Idle]
  /\ loopOwner = NoOwner
  /\ coro = [c \in Coros |-> NotStarted]
  /\ parse = NoCall
  /\ page = NoPage
  /\ scan \in [attempt : {"primary", "ladder"}, extractor : {"ok", "raise"},
               expected : FileStates, sibling : FileStates,
               foreign : SUBSET ForeignFiles, from : {"none"},
               path : {{}}, phase : {"start"}]

\* The closure after the extractor ran: the expected file, then the scan of
\* the download directory, then (primary attempt only) the scan of the
\* whole temp tree, which takes whichever recent file the glob lists first;
\* from names where the returned path was found, "none" for None, and path
\* holds the file of another request when that is what was found.  An
\* exception gives (None, None).
FindDownloadedFile ==
  /\ scan.phase = "start"
  /\ \/ /\ scan.extractor = "ok"
        /\ ~IsDownloaded(scan.expected)
        /\ ~IsDownloaded(scan.sibling)
        /\ scan.attempt = "primary"
        /\ \E f \in RecentScan(scan.foreign) :
             scan' = [scan EXCEPT !.from = "foreign", !.path = {f},
                                  !.phase = "found"]
     \/ /\ ~(/\ scan.extractor = "ok"
             /\ ~IsDownloaded(scan.expected)
             /\ ~IsDownloaded(scan.sibling)
             /\ scan.attempt = "primary"
             /\ RecentScan(scan.foreign) # {})
        /\ scan' = [scan EXCEPT
             !.from = IF scan.extractor = "raise" THEN "none"
                      ELSE IF IsDownloaded(scan.expected) THEN "expected"
                      ELSE IF IsDownloaded(scan.sibling) THEN "sibling"
                      ELSE "none",
             !.phase = "found"]
  /\ UNCHANGED <<llmConfigured, localApi, memory, now, files, reqCount, req,
                 loopOwner, coro, parse, page>>

\* The handler of the request that owns a file under TEMP_DIR unlinks it
\* after sending, while this attempt's thread or a later await is running.
OwnerUnlinks ==
  /\ scan.phase \in {"start", "found", "checked"}
  /\ \E f \in scan.foreign :
       scan' = [scan EXCEPT !.foreign = scan.foreign \ {f}]
  /\ UNCHANGED <<llmConfigured, localApi, memory, now, files, reqCount, req,
                 loopOwner, coro, parse, page>>

\* Back on the event loop: the primary attempt returns the path only if it
\* still exists and otherwise goes on to the ladder; a ladder attempt
\* returns whatever the closure gave.
ExistsRecheck ==
  /\ scan.phase = "found"
  /\ scan' = [scan EXCEPT
       !.from = IF scan.attempt = "primary" /\ scan.from = "foreign"
                   /\ ~(scan.path \subseteq scan.foreign)
                THEN "none" ELSE scan.from,
       !.path = IF scan.attempt = "primary" /\ scan.from = "foreign"
                   /\ ~(scan.path \subseteq scan.foreign)
                THEN {} ELSE scan.path,
       !.phase = "checked"]
  /\ UNCHANGED <<llmConfigured, localApi, memory, now, files, reqCount, req,
                 loopOwner, coro, parse, page>>

\* download_video awaits the thumbnail of the result and returns the path.
DownloadReturns ==
  /\ scan.phase = "checked"
  /\ scan' = [scan EXCEPT !.phase = "returned"]
  /\ UNCHANGED <<llmConfigured, localApi, memory, now, files, reqCount, req,
                 loopOwner, coro, parse, page>>

\* ------------------------------------------ the except branch of the try
\* The try block of handle_llm_request runs from the first memory lookup
\* to the end of the dispatched handler (the fast path stands before it).
\* After the model call every branch awaits a Telegram call that no inner
\* try block covers (the reply of the gate and of the dispatcher, the
\* status message of a handler); when that call raises, the except branch
\* announces the simple mode and routes the text as handle_message does
\* without a classifier.

\* The replies and calls made so far for the request include ev.
Logged(r, ev) == \E i \in 1..Len(r.log) : r.log[i] = ev

\* The except branch taken once more after a handler has sent its video.
InTry_after_send(r) == r.pc = "done" /\ Logged(r, "send_video")

\* The request is at a point of the try block where an awaited call can
\* raise into the except branch.
InTry(r) == llmConfigured /\ ~r.fast /\ r.pc = "dispatch"

LlmRequestRaises(t) ==
  LET r == req[t]
      m == simple_mode(r.text)
      r1 == [r EXCEPT !.extFail = TRUE, !.log = Append(@, "reply:simple_mode")]
  IN
  /\ r.entry = "message"
  /\ InTry(r)
  /\ ~Logged(r, "reply:simple_mode")
  /\ req' = [req EXCEPT ![t] =
       IF m \in {"vr", "cr"}
         THEN [r1 EXCEPT !.pc = m, !.caller = m,
                         !.url = extract_video_url(r.text)]
         ELSE [r1 EXCEPT !.pc = "done", !.log = Append(@, m)]]
  /\ UNCHANGED <<sideVars, llmConfigured, localApi, memory, now, files, reqCount>>

NextBot ==
  \/ Tick
  \/ \E t \in Tasks :
       \/ Receive(t)
       \/ HandleMessage(t)
       \/ ProcessRequest(t)
       \/ Dispatch(t)
       \/ EnterHandler(t)
       \/ DownloadVideo(t)
       \/ YtDlp(t)
       \/ _download_with_fallback_formats(t)
       \/ AfterDownload(t)
       \/ Send(t)

NextApi ==
  \/ NextBot
  \/ \E t \in Tasks :
       \/ TrimFromMemory(t)
       \/ test_download(t)
       \/ _stage1_direct_yt_dlp(t)
       \/ _stage3_playwright_search(t)
       \/ _stage2_llm_find_video(t)
       \/ _stage4_llm_generate_code(t)
       \/ TrimVideo(t)
       \/ AfterTrim(t)
       \/ ApiSave(t)
       \/ ApiGet(t)
       \/ ApiClear(t)
       \/ ApiDownload(t)
       \/ ApiTrim(t)
       \/ ApiCombined(t)

Spec == Init /\ [][NextBot]_vars

SpecApi == Init /\ [][NextApi]_vars

\* The running bot with Telegram calls that can fail inside the try block
\* of handle_llm_request.
NextFail == NextBot \/ \E t \in Tasks : LlmRequestRaises(t)

SpecFail == Init /\ [][NextFail]_vars

\* The event loop with two handler coroutines.
NextLoop == \E c \in Coros : CoCall(c) \/ CoResume(c) \/ CoReturn(c)

SpecLoop == Init /\ [][NextLoop]_vars

\* parse_time_request applied to each text and duration.
NextParse == ParseTimeRequest

SpecParse == InitParse /\ [][NextParse]_vars

\* The browser stage applied to each page.
NextPage == PlaywrightSearch

SpecPage == InitPage /\ [][NextPage]_vars

\* One download attempt on each state of the temp tree.
NextScan ==
  FindDownloadedFile \/ OwnerUnlinks \/ ExistsRecheck \/ DownloadReturns

SpecScan == InitScan /\ [][NextScan]_vars

\* The running bot never reaches the steps Spec leaves out of NextBot.
BotLeavesOut ==
  \A t \in Tasks : req[t].pc \notin {"tfm", "stage", "trim_video", "after_trim"}

\* ------------------------------------------------------------------ claims
Has(r, ev) == \E i \in 1..Len(r.log) : r.log[i] = ev

Gets(r) == Cardinality({i \in 1..Len(r.log) : r.log[i] = "memget"})

\* The message of task t went through the classifier and the dispatcher has
\* acted on the result.
Dispatched(t) ==
  /\ req[t].entry = "message"
  /\ Has(req[t], "llm")
  /\ req[t].pc # "dispatch"

ModelCallFailed(reply) ==
  \/ reply.kind # "json"
  \/ reply.missing # {}
  \/ reply.confidence.ty # "num"
  \/ reply.use_last_video.ty # "bool"
  \/ reply.action \notin {"download", "trim", "download_and_trim"}

KindByKeywords(text) ==
  LET url == \E i \in 1..Len(text) : TokMatchesUrlPattern(text[i])
      trim == \/ \E kw \in {"obrezh", "obrezat"} : KeywordIn(kw, text)
              \/ \E w \in {"s", "ot", "po", "do"} : SpaceKeywordIn(w, text)
  IN IF url /\ trim THEN "download_and_trim"
     ELSE IF url THEN "download"
     ELSE IF trim THEN "trim"
     ELSE "unknown"

\* C3: on every failure of the model call (exception, output that is not
\* JSON, a missing field, a confidence that is not a number, a
\* use_last_video that is not a boolean, an unknown action) the classifier
\* returns a result with confidence 0.3 whose action follows from the URL
\* and the trim keywords of the text alone.
C3_FallbackOnEveryFailure ==
  \A t \in Tasks :
    (/\ req[t].entry = "message"
     /\ Has(req[t], "llm")
     /\ ModelCallFailed(req[t].reply))
    => /\ req[t].result.confidence = 30
       /\ req[t].result.action = KindByKeywords(req[t].text)

\* C4: when the model call fails on a rate limit the classifier returns the
\* rate-limit action, and the dispatcher answers with the retry-later reply,
\* not with the low-confidence reply.
C4_RateLimitedAction ==
  \A t \in Tasks :
    (/\ req[t].entry = "message"
     /\ Has(req[t], "llm")
     /\ req[t].reply.kind = "rate_limit")
    => /\ req[t].result.action = "rate_limit"
       /\ req[t].pc # "dispatch"
          => /\ Has(req[t], "reply:rate_limit")
             /\ ~Has(req[t], "reply:low_confidence")

\* A step in which task t calls get_video_memory, and a step that saves an
\* entry.
GetStep(t) ==
  IF req'[t].id = req[t].id
    THEN Gets(req'[t]) > Gets(req[t])
    ELSE Gets(req'[t]) > 0

SaveStep(t) ==
  /\ Has(req'[t], "memsave")
  /\ req'[t].id # req[t].id \/ ~Has(req[t], "memsave")

\* C5: a get returns nothing for an entry created more than 3600 seconds
\* ago and removes it from the store; an entry of age at most 3600 seconds
\* is returned as it is and stays; a user without an entry gets one only by
\* a save, so every later get returns nothing until then.
C5_MemoryExpiry ==
  [][/\ \A t \in Tasks :
          GetStep(t) =>
            LET u == req'[t].user IN
            /\ req'[t].got = {m \in memory[u] : now - m.timestamp <= 3600}
            /\ memory'[u] = req'[t].got
     /\ \A u \in Users :
          (memory[u] = {} /\ memory'[u] # {}) =>
            \E t \in Tasks : SaveStep(t) /\ req'[t].user = u]_vars

\* C5 witness: a get found an entry past its hour, returned nothing and left
\* the store empty.
C5_Witness ==
  \E t \in Tasks :
    /\ req[t].entry = "get"
    /\ req[t].before # {}
    /\ \A m \in req[t].before : req[t].getTime - m.timestamp > 3600
    /\ req[t].got = {}
    /\ memory[req[t].user] = {}

\* C6: when the handling of a message has returned, no file that request
\* created (video, clip or thumbnail) exists any more.
C6_NoFileLeft ==
  \A t \in Tasks :
    (req[t].entry = "message" /\ req[t].pc = "done")
    => \A f \in files : f.req # req[t].id

\* C7: with the classifier configured, a bare URL without trim keywords is
\* downloaded, delivered and remembered for the user, provided nothing
\* outside the program failed and the size check passed.
C7_BareUrlDelivered ==
  \A t \in Tasks :
    LET r == req[t] IN
    (/\ r.entry = "message" /\ r.pc = "done"
     /\ llmConfigured
     /\ is_video_url(r.text) /\ ~contains_trim_request(r.text)
     /\ ~r.extFail
     /\ ~Has(r, "reply:too_big")
     /\ ~Has(r, "no_video_attr"))
    => /\ Has(r, "send_video")
       /\ r.sent = r.video_path /\ r.sent # NoFile
       /\ \E m \in memory[r.user] : m.video_url = extract_video_url(r.text)

\* C8: a trim result with use_last_video and confidence at least 0.5, for a
\* user with an unexpired entry and a time range in the text, downloads the
\* remembered URL again, trims the new file and delivers the clip, provided
\* nothing outside the program failed.
C8_TrimFromMemoryDelivered ==
  \A t \in Tasks :
    LET r == req[t] IN
    (/\ Dispatched(t) /\ r.pc = "done"
     /\ r.result.action = "trim"
     /\ r.result.use_last_video
     /\ r.result.confidence >= 50
     /\ r.got # {}
     /\ r.range # <<>>
     /\ ~r.extFail
     /\ ~Has(r, "reply:too_big"))
    => /\ Has(r, "ytdlp")
       /\ Has(r, "trim")
       /\ Has(r, "send_video")
       /\ r.sent = r.trimmed_path /\ r.sent # NoFile

TrimOutcome(r) ==
  \/ Has(r, "reply:trim_failed")
  \/ r.sent # NoFile /\ r.sent.kind = "trimmed"

\* C11: no step of a trim handler (trim from memory, download and trim,
\* combined request) changes the memory store, and a request that ended in
\* a trimmed delivery or a trim failure removed no entry before its handler
\* either: the store is as it was when the request began.
C11_TrimLeavesMemory ==
  [][\A t \in Tasks :
       (/\ req'[t] # req[t]
        /\ req'[t].id = req[t].id
        /\ req[t].caller \in {"tfm", "vdt", "cr"})
       => /\ memory' = memory
          /\ (req'[t].pc = "done" /\ TrimOutcome(req'[t]))
             => /\ ~req'[t].purged
                /\ ~Has(req'[t], "memsave")]_vars

\* C11 witness: a clip was delivered to a user who holds an entry.
C11_Witness ==
  \E t \in Tasks :
    /\ req[t].pc = "done"
    /\ req[t].caller \in {"tfm", "vdt", "cr"}
    /\ req[t].sent # NoFile /\ req[t].sent.kind = "trimmed"
    /\ memory[req[t].user] # {}

\* C12: the running bot writes an entry for a user only in the step in which
\* a request of that user, in a full-download handler, has sent its
\* downloaded video and the message sent carries the video; a request whose
\* download failed, whose file the size check rejected or whose send raised
\* writes none.
C12_SaveOnlyAfterFullSend ==
  [][\A u \in Users :
       (memory'[u] # memory[u] /\ memory'[u] # {}) =>
         \E t \in Tasks :
           LET r == req'[t] IN
           /\ req[t].pc = "send" /\ r.pc = "done" /\ r.id = req[t].id
           /\ r.user = u
           /\ r.caller \in {"vd", "vr"}
           /\ r.sent = r.video_path /\ r.sent.kind = "video"
           /\ Has(r, "send_video")
           /\ ~Has(r, "no_video_attr")
           /\ ~Has(r, "reply:download_failed")
           /\ ~Has(r, "reply:too_big")
           /\ ~Has(r, "reply:error")
           /\ memory'[u] = {Entry(r.url, r.video_path, now)}]_vars

\* C12 witness: a full download was sent and the sender's entry holds its URL.
C12_Witness ==
  \E t \in Tasks :
    /\ req[t].entry = "message" /\ req[t].pc = "done"
    /\ Has(req[t], "memsave")
    /\ req[t].sent.kind = "video"
    /\ \E m \in memory[req[t].user] : m.video_url = req[t].url

\* The text is one token, a URL with scheme and host, in which none of the
\* trim keywords occurs.
BareUrl(text) ==
  /\ Len(text) = 1
  /\ TokMatchesUrlPattern(text[1]) /\ TokHasNetloc(text[1])
  /\ TokContains(text[1]) \cap
       {"obrezh", "obrezat", "trim", "cut", "sekund", "minut", "sek", "min"} = {}

C14_ResolvedUrlTested ==
  \A t \in Tasks : req[t].method # "" => req[t].tested

\* C15: when all four stages returned absent the resolution is over:
\* download_video returns nothing, no stage runs a second time, and neither
\* the download nor its format ladder is started.
C15_NoRetryAfterFourStages ==
  \A t \in Tasks :
    LET r == req[t] IN
    (Len(r.outcomes) >= 4 /\ \A i \in 1..4 : r.outcomes[i] = "absent")
    => /\ r.pc \in {"after_download", "done"}
       /\ Len(r.stages) = 4
       /\ ~Has(r, "ytdlp")
       /\ r.video_path = NoFile
       /\ Cardinality({i \in 1..Len(r.log) : r.log[i] = "resolver"}) = 1

\* C15 witness: a call of download_video returned after four absent stages.
C15_Witness ==
  \E t \in Tasks :
    /\ req[t].pc = "done"
    /\ req[t].outcomes = <<"absent", "absent", "absent", "absent">>
    /\ req[t].video_path = NoFile

\* C16: trim_video with start >= end returns nothing, does not run the
\* trimming tool and creates no output file.
C16_TrimRejectsEmptyRange ==
  \A t \in Tasks :
    LET r == req[t] IN
    (Len(r.range) = 2 /\ r.range[1] >= r.range[2])
    => /\ r.trimmed_path = NoFile
       /\ ~Has(r, "trim")
       /\ File(r, "trimmed") \notin files

\* C16 witness: trim_video(path, 10, 10) returned for an input that exists.
C16_Witness ==
  \E t \in Tasks :
    /\ req[t].entry = "trim_video" /\ req[t].pc = "done"
    /\ req[t].range = <<10, 10>>
    /\ req[t].video_path \in files
    /\ req[t].trimmed_path = NoFile

\* C17: when trim_video has run the tool and returned nothing (non-zero
\* exit, zero exit with an empty output, or an exception), no output file
\* of that call exists.
C17_NoPartialOutput ==
  \A t \in Tasks :
    LET r == req[t] IN
    (Has(r, "trim") /\ r.trimmed_path = NoFile)
    => File(r, "trimmed") \notin files

\* C18: the download tries the primary selector first and then the
\* fallbacks 1080p, 720p, 480p, worst, audio only, in that order; a further
\* selector is tried only while no file has materialized, and nothing is
\* returned only after all six have failed.
C18_FormatLadder ==
  \A t \in Tasks :
    LET r == req[t]
        n == Len(r.formats)
    IN /\ n <= 6
       /\ r.formats =
            SubSeq(<<"best/bestvideo+bestaudio/best",
                     "best[height<=1080]", "best[height<=720]",
                     "best[height<=480]", "worst", "bestaudio">>, 1, n)
       /\ r.pc = "ytdlp" => r.video_path = NoFile /\ n < 6
       /\ (n > 0 /\ r.pc # "ytdlp" /\ r.video_path = NoFile) => n = 6

\* C18 witness: the primary selector and 1080p gave no file, 720p did, and
\* the download returned that file.
C18_Witness ==
  \E t \in Tasks :
    /\ req[t].pc \in {"after_download", "done"}
    /\ Len(req[t].formats) = 3
    /\ req[t].formats[3] = "best[height<=720]"
    /\ req[t].video_path # NoFile /\ req[t].video_path \in files

\* The request has had a file checked by check_file_size_for_telegram: the
\* download in a full-download handler, the clip in a trim handler.
SizeChecked(r) == Has(r, "sizecheck") \/ Has(r, "reply:too_big")

CheckedSize(r) == IF r.caller \in {"vd", "vr"} THEN r.video_size ELSE r.trimmed_size

HardCap == IF localApi THEN 2048 ELSE 50

SoftCap == IF localApi THEN 500 ELSE 45

\* C19 as stated: the verdict depends on the size and the two caps only:
\* rejected iff size > hard cap, accepted with a warning iff soft cap < size
\* <= hard cap, accepted without a message iff size <= soft cap, for full
\* downloads and for clips alike.
C19_TwoCeilings ==
  \A t \in Tasks :
    LET r == req[t]
        size == CheckedSize(r)
    IN SizeChecked(r) =>
         /\ Has(r, "reply:too_big") <=> size > HardCap
         /\ (Has(r, "sizecheck") /\ Has(r, "reply:size"))
              <=> (SoftCap < size /\ size <= HardCap)
         /\ (Has(r, "sizecheck") /\ ~Has(r, "reply:size")) <=> size <= SoftCap

\* C19 amended: rejected iff size > hard cap; accepted without a message iff
\* size <= soft cap and size <= 100 MB; accepted with a warning otherwise,
\* that is iff size <= hard cap and (size > soft cap or size > 100 MB); for
\* full downloads and for clips alike.
C19_TwoCeilingsAnd100MB ==
  \A t \in Tasks :
    LET r == req[t]
        size == CheckedSize(r)
    IN SizeChecked(r) =>
         /\ Has(r, "reply:too_big") <=> size > HardCap
         /\ Has(r, "reply:too_big") => ~Has(r, "sizecheck")
         /\ (Has(r, "sizecheck") /\ Has(r, "reply:size"))
              <=> (size <= HardCap /\ (size > SoftCap \/ size > 100))
         /\ (Has(r, "sizecheck") /\ ~Has(r, "reply:size"))
              <=> (size <= SoftCap /\ size <= 100)

\* C19 witness: with the local API server a 200 MB download, under the soft
\* cap of 500 MB, was accepted with a warning.
C19_Witness ==
  \E t \in Tasks :
    /\ localApi
    /\ req[t].caller = "vr"
    /\ req[t].video_size = 200
    /\ Has(req[t], "sizecheck") /\ Has(req[t], "reply:size")

\* C20: when the size check rejected a file, the user got the rejection
\* message, no video was sent, and when the handler has returned the
\* rejected file (for a trim also the downloaded source) is deleted.
C20_RejectedFileDeleted ==
  \A t \in Tasks :
    LET r == req[t] IN
    (r.pc = "done" /\ Has(r, "reply:too_big"))
    => /\ r.sent = NoFile /\ ~Has(r, "send_video")
       /\ r.video_path \notin files
       /\ r.trimmed_path \notin files

\* The replies that answer a message: every reply except the progress
\* messages (status, trimming, size warning), and the video itself.
Answers ==
  {"reply:rate_limit", "reply:low_confidence", "reply:no_url",
   "reply:clarify_trim", "reply:no_time_range", "reply:unknown",
   "reply:error", "reply:download_failed", "reply:trim_failed",
   "reply:too_big", "reply:no_link", "reply:trim_needs_link",
   "reply:greeting", "send_video"}

Answered(r) == \E i \in 1..Len(r.log) : r.log[i] \in Answers

\* C21: whatever the message and whatever the outcomes of the classifier,
\* the resolver, the downloads, the trim and the send, a handled message has
\* been answered: the handler returned after at least one user-facing reply
\* that is an answer (the video or a message saying why not), so no
\* exception left handle_message between the status message and the answer.
C21_AlwaysAnswered ==
  \A t \in Tasks :
    (req[t].entry = "message" /\ req[t].pc = "done") => Answered(req[t])

\* C21 witness: the call of download_video raised inside the handler, after
\* the status message, and the handler's except branch answered.
C21_Witness ==
  \E t \in Tasks :
    /\ req[t].entry = "message" /\ req[t].pc = "done"
    /\ Has(req[t], "reply:status") /\ Has(req[t], "reply:error")
    /\ ~Has(req[t], "resolver")

\* C22: every language-model call, extractor call and external-process
\* invocation is a suspension point: while one coroutine is in such a call
\* the event loop's thread is not held by it, so the loop can run another
\* user's coroutine that is ready.
C22_CallsSuspend ==
  \A c \in Coros :
    coro[c].phase = "calling"
    => /\ loopOwner # c
       /\ \A d \in Coros \ {c} :
            (coro[d].phase = "ready" /\ coro[d].at < Len(CallSites))
            => ENABLED CoCall(d)

\* C23: every time range parse_time_request returns satisfies
\* 0 <= start < end.
C23_RangeOrdered ==
  (parse.returned /\ parse.result # <<>>)
  => (0 <= parse.result[1] /\ parse.result[1] < parse.result[2])

\* The seconds a valid mm:ss token stands for.
ClockSeconds(tok) == 60 * TimeParts(tok)[1] + TimeParts(tok)[2]

\* The text is "ot A do B" with mm:ss tokens A before B.
FromToClock(text) ==
  /\ Len(text) = 4 /\ text[1] = "ot" /\ text[3] = "do"
  /\ IsClock(text[2]) /\ IsClock(text[4])
  /\ TimeParts(text[2])[2] < 60 /\ TimeParts(text[4])[2] < 60
  /\ ClockSeconds(text[2]) < ClockSeconds(text[4])

\* C24: for mm:ss tokens A before B, parse_time_request("ot A do B") is
\* <<60 * min(A) + sec(A), 60 * min(B) + sec(B)>>, whatever the optional
\* duration argument is: an end beyond the duration is not clamped.
C24_ClockRange ==
  (parse.returned /\ FromToClock(parse.text))
  => parse.result = <<ClockSeconds(parse.text[2]), ClockSeconds(parse.text[4])>>

\* C24 witness: "ot 1:30 do 2:45" for a video of 100 seconds gave <<90, 165>>.
C24_Witness ==
  /\ parse.returned
  /\ parse.text = <<"ot", "1:30", "do", "2:45">>
  /\ parse.video_duration = 100
  /\ parse.result = <<90, 165>>

\* C25: every result process_request hands to the dispatcher has a
\* confidence within [0, 1] (0..100 hundredths): a model response whose
\* confidence lies outside that interval is not passed on as it is.
C25_ConfidenceInRange ==
  \A t \in Tasks :
    Dispatched(t)
    => (0 <= req[t].result.confidence /\ req[t].result.confidence <= 100)

\* A step in which task t makes the call `entry` on the memory store.
StoreCall(t, entry) == req'[t].entry = entry /\ req'[t].id # req[t].id

\* C26: the store holds at most one entry per user, and it is that user's
\* latest save: an entry changes only by a save for its user, which puts
\* the saved values in its place, or by being removed.  save, get and clear
\* for user u leave every other user's entry as it was, and clear for a
\* user without an entry changes nothing.
C26_PerUserFrame ==
  [][/\ \A u \in Users :
          /\ Cardinality(memory'[u]) <= 1
          /\ memory'[u] # memory[u]
               => \/ memory'[u] = {}
                  \/ \E t \in Tasks :
                       /\ SaveStep(t) /\ req'[t].user = u
                       /\ \E m \in memory'[u] :
                            m.video_url = req'[t].url /\ m.timestamp = now
     /\ \A t \in Tasks :
          LET u == req'[t].user IN
          /\ StoreCall(t, "save")
               => /\ memory'[u] = {Entry(req'[t].url, NoFile, now)}
                  /\ \A v \in Users \ {u} : memory'[v] = memory[v]
          /\ StoreCall(t, "get")
               => /\ memory'[u] \in {memory[u], {}}
                  /\ \A v \in Users \ {u} : memory'[v] = memory[v]
          /\ StoreCall(t, "clear")
               => /\ memory'[u] = {}
                  /\ \A v \in Users \ {u} : memory'[v] = memory[v]
                  /\ memory[u] = {} => memory' = memory]_vars

\* C26 witness: a clear for one user was made while the other user's entry
\* was in the store, and that entry is still there.
C26_Witness ==
  \E t \in Tasks :
    /\ req[t].entry = "clear" /\ req[t].pc = "done"
    /\ memory[req[t].user] = {}
    /\ \E v \in Users \ {req[t].user} : memory[v] # {}

\* C27: a failure inside a stage after the first makes the stage return
\* absent: no stage ends extract_video_url with an exception, and a run of
\* the resolver that found nothing went through all four stages.
C27_StagesFailSoft ==
  \A t \in Tasks :
    LET r == req[t]
        n == Len(r.outcomes)
    IN /\ \A i \in 2..n : r.outcomes[i] # "raise"
       /\ (r.pc # "stage" /\ n > 0
           /\ r.outcomes[n] \notin {"found", "found_by_format"})
            => n = Len(StageOrder)

\* The notifications 'stage k started' for k = 1..n, in order.
StartedUpTo(n) == [k \in 1..n |-> StartedNote(k)]

\* The resolver run of r is over (it was entered and is in no stage).
ResolverOver(r) == Has(r, "resolver") /\ r.pc # "stage"

Succeeded(r) ==
  /\ Len(r.outcomes) > 0
  /\ r.outcomes[Len(r.outcomes)] \in {"found", "found_by_format"}

\* C28: in a run of the resolver with a progress callback, 'started k' is
\* emitted before stage k is entered, for the stages tried and in their
\* order; 'found' is emitted once, as the last notification, exactly when a
\* stage succeeded; a run that ended without success emitted the four
\* 'started' notifications and no 'found'.
C28_Notifications ==
  \A t \in Tasks :
    LET r == req[t] IN
    (r.cb = "callable" /\ Has(r, "resolver"))
    => /\ r.pc = "stage" => r.notes = StartedUpTo(r.stageIdx)
       /\ (ResolverOver(r) /\ Succeeded(r))
            => r.notes = StartedUpTo(Len(r.stages)) \o <<"found">>
       /\ (ResolverOver(r) /\ ~Succeeded(r))
            => r.notes = StartedUpTo(Len(StageOrder))

\* The words of a trim request, as whole tokens.
TrimWords ==
  {"obrezh", "obrezat", "trim", "cut", "s", "ot", "po", "do", "sek",
   "sekund", "min", "minut"}

\* A plain text: no token is a URL and no token is a word of a trim request.
PlainText(text) ==
  \A i \in 1..Len(text) :
    ~TokMatchesUrlPattern(text[i]) /\ text[i] \notin TrimWords

\* C29: a plain text message without a video URL and without a trim request
\* is answered by exactly one reply, the greeting, and nothing else happens:
\* no download, no trim, no write to the memory store.
C29_PlainTextGreeted ==
  \A t \in Tasks :
    (req[t].entry = "message" /\ req[t].pc = "done" /\ PlainText(req[t].text))
    => req[t].log = <<"reply:greeting">>

\* A step in which stage 1 of task t returns.
Stage1Returns(t) ==
  /\ req[t].pc = "stage" /\ req[t].stageIdx = 1 /\ req[t].probe # "none"
  /\ req'[t] # req[t]

\* C30: stage 1 succeeds exactly when its test download left a non-empty
\* file (metadata without a file is a failure); on success it returns the
\* URL it was given; and once stage 1 has returned, with or without success,
\* the file of the test download does not exist.
C30_Stage1 ==
  [][/\ \A t \in Tasks :
          Stage1Returns(t) =>
            /\ req'[t].outcomes = <<IF req[t].probe = "file"
                                      THEN "found" ELSE "absent">>
            /\ req[t].probe = "file"
                 => /\ req'[t].pc = "ytdlp" /\ req'[t].method = "direct"
                    /\ req'[t].url = req[t].url
     /\ \A f \in files' :
          f.kind = "test"
          => \E t \in Tasks :
               /\ req'[t].id = f.req
               /\ req'[t].pc = "stage" /\ req'[t].stageIdx = 1]_vars

\* C30 witness: the test download gave the metadata and no file, and stage 1
\* returned without a URL.
C30_Witness ==
  \E t \in Tasks :
    /\ req[t].probe = "info_only"
    /\ Len(req[t].outcomes) >= 1 /\ req[t].outcomes[1] = "absent"
    /\ \A f \in files : f.kind # "test"

\* The DOM candidates with a valid format, and the scripted candidates among
\* the first n that have a valid format and pass the metadata probe.
DomPassing == {i \in 1..Len(page.dom) : page.dom[i].format}

ScriptedPassing(n) ==
  {j \in 1..Len(page.scripted) :
     j <= n /\ page.scripted[j].format /\ page.scripted[j].probe}

Least(S) == CHOOSE i \in S : \A j \in S : i <= j

\* The browser stage returned the first passing candidate, DOM candidates
\* before scripted ones, the scripted ones taken from the first n.
FirstPassingOf(n) ==
  /\ DomPassing # {} => (page.from = "dom" /\ page.at = Least(DomPassing))
  /\ (DomPassing = {} /\ ScriptedPassing(n) # {})
       => (page.from = "scripted" /\ page.at = Least(ScriptedPassing(n)))
  /\ (DomPassing = {} /\ ScriptedPassing(n) = {}) <=> page.from = "none"

\* C31 as stated: DOM candidates are tried before scripted ones; a DOM
\* candidate is accepted on its format alone, a scripted one only after the
\* metadata probe; the first candidate that passes is returned, and absent
\* is returned only if no candidate passes.
C31_BrowserCandidates ==
  (page.returned /\ page # NoPage) => FirstPassingOf(Len(page.scripted))

\* C31 amended: the same, with the scripted candidates limited to the first
\* ten of the list: absent is returned when no DOM candidate and none of
\* those ten passes.
C31_BrowserCandidatesFirstTen ==
  (page.returned /\ page # NoPage) => FirstPassingOf(10)

\* C31 witness: the only DOM candidate is malformed, the first scripted
\* candidate is well-formed but fails the probe, and the second one, which
\* passes it, was returned.
C31_Witness ==
  /\ page.returned
  /\ Len(page.dom) = 1 /\ ~page.dom[1].format
  /\ Len(page.scripted) = 2
  /\ page.scripted[1].format /\ ~page.scripted[1].probe
  /\ page.scripted[2].probe
  /\ page.from = "scripted" /\ page.at = 2

\* The file a finished download attempt returned exists and is not empty.
ReturnedFileFull ==
  CASE scan.from = "expected" -> scan.expected = "full"
    [] scan.from = "sibling" -> scan.sibling = "full"
    [] scan.from = "foreign" ->
         \E f \in scan.path : f \in scan.foreign /\ ~f.empty
    [] OTHER -> FALSE

\* C32: a path returned by download, wherever it was found (the expected
\* name, the scan of the directory, the scan for recent files, a ladder
\* attempt), names a file that exists with a length above zero at the
\* moment download returns; metadata without such a file gives no path.
C32_ReturnedFileExists ==
  (scan.phase = "returned" /\ scan.from # "none") => ReturnedFileFull

\* C34: the file a download attempt returns was written by the request's
\* own extractor run into its own download directory; it is never a file of
\* another request found by the scan of the shared temp tree.
C34_OwnFileOnly ==
  scan.phase = "returned" => scan.from \in {"none", "expected", "sibling"}

\* The text holds a video URL and a time range the parser recognises.
UrlWithRange(text) ==
  is_video_url(text) /\ parse_time_request(text, NoTime) # <<>>

\* C33: a message with both a video URL and a time range is handled by
\* downloading and trimming to that range, in simple mode (no classifier)
\* as well: handle_message routes it to the combined handler, not to the
\* plain download, and a video that is sent is the trimmed clip.
C33_UrlWithRangeCombined ==
  \A t \in Tasks :
    LET r == req[t] IN
    (/\ r.entry = "message" /\ r.pc = "done"
     /\ ~llmConfigured
     /\ UrlWithRange(r.text))
    => /\ r.caller = "cr"
       /\ Has(r, "send_video") => (r.sent = r.trimmed_path /\ Has(r, "trim"))

\* The request was served by handle_trim_from_memory: the classifier was
\* called a second time, by extract_time_range.
ServedFromMemory(r) ==
  Cardinality({i \in 1..Len(r.log) : r.log[i] = "llm"}) = 2

\* C35: for a trim served from the remembered video, the start and end the
\* handler holds for the trim are the start_time and end_time of the
\* result that passed the confidence gate, not those of a second,
\* independent classification of the same text.
C35_GatedRangeUsed ==
  \A t \in Tasks :
    LET r == req[t] IN
    (/\ ServedFromMemory(r)
     /\ r.result.start_time # NoTime /\ r.result.end_time # NoTime)
    => r.range = <<r.result.start_time, r.result.end_time>>

\* C36: within one message, the memory entry given to the classifier as
\* context and the entry used afterwards for the trim from memory are the
\* same: neither expiry nor a save or clear for the same user in between
\* makes the second lookup differ from the first or come back empty.
C36_OneLookup ==
  \A t \in Tasks :
    (req[t].entry = "message" /\ Gets(req[t]) = 2)
    => req[t].got = req[t].mem

\* The file a request sent and its size in MiB.
SentSize(r) ==
  IF r.sent = r.trimmed_path THEN r.trimmed_size ELSE r.video_size

\* C37: in every handler a video is sent only after the size check of that
\* very file came back acceptable; a trimmed clip is sent only after both
\* the download and the trim of the same request succeeded; no file above
\* the hard cap is ever sent.
C37_SentAfterSizeCheck ==
  \A t \in Tasks :
    LET r == req[t] IN
    Has(r, "send_video")
    => /\ \E j \in 2..Len(r.log) :
            r.log[j] = "send_video" /\ r.log[j - 1] = "sizecheck"
       /\ r.sent # NoFile /\ r.sent.req = r.id
       /\ r.sent = (IF r.caller \in TrimHandlers THEN r.trimmed_path
                                                 ELSE r.video_path)
       /\ SentSize(r) <= get_max_file_size(localApi)
       /\ r.caller \in TrimHandlers
            => /\ r.video_path # NoFile /\ r.video_path.req = r.id
               /\ Has(r, "trim")
               /\ r.trimmed_path.kind = "trimmed"

\* C37 witness: a trimmed clip was sent after its own size check although
\* the download it was cut from is above the hard cap.
C37_Witness ==
  \E t \in Tasks :
    /\ Has(req[t], "send_video")
    /\ req[t].caller \in TrimHandlers
    /\ req[t].sent = req[t].trimmed_path
    /\ req[t].video_size > get_max_file_size(localApi)
    /\ req[t].trimmed_size <= get_max_file_size(localApi)

\* The number of videos sent for a message.
VideosSent(r) == Cardinality({i \in 1..Len(r.log) : r.log[i] = "send_video"})

\* C38: at most one video is sent for an incoming message, also when the
\* classifier path raises and handle_llm_request falls back to the
\* simple-mode handlers.
C38_AtMostOneVideo ==
  \A t \in Tasks : req[t].entry = "message" => VideosSent(req[t]) <= 1

\* C38 witness: the classifier path raised, the except branch entered
\* handle_video_request for the URL of the text, and the request finished.
C38_Witness ==
  \E t \in Tasks :
    /\ Has(req[t], "reply:simple_mode")
    /\ req[t].caller = "vr"
    /\ req[t].pc = "done"

\* The request is inside download_video.
InDownload(r) == r.pc \in {"download_video", "stage", "ytdlp"}

\* Extractor runs with download enabled made for the request so far: the
\* test download of stage 1 and the attempts of the format ladder.
ExtractorDownloads(r) == (IF r.probe # "none" THEN 1 ELSE 0) + Len(r.formats)

\* The work done inside download_video: it grows with every step.
DownloadWork(r) ==
  Len(r.stages) + ExtractorDownloads(r)
    + (IF r.pc = "download_video" THEN 0 ELSE 1)

\* Each resolver stage has been invoked at most once.
StagesOnce(r) ==
  /\ Len(r.stages) <= 4
  /\ \A i, j \in 1..Len(r.stages) : r.stages[i] = r.stages[j] => i = j

\* A step of download_video for task t does new work and keeps the counts
\* of stage invocations and of extractor downloads (at most n) bounded.
BoundedStep(t, n) ==
  (InDownload(req[t]) /\ req'[t] # req[t])
  => /\ DownloadWork(req'[t]) > DownloadWork(req[t])
     /\ StagesOnce(req'[t])
     /\ Len(req'[t].formats) <= 6
     /\ ExtractorDownloads(req'[t]) <= n

\* C39 as stated: one invocation of download_video terminates when each
\* external call returns: every step does new work, each resolver stage is
\* invoked at most once (at most four stage invocations), and at most six
\* extractor download attempts are made (one primary, five of the ladder).
C39_BoundedDownload == [][\A t \in Tasks : BoundedStep(t, 6)]_vars

\* C39 with the test download of stage 1 counted: one invocation of
\* download_video terminates when each external call returns: every step
\* does new work, each resolver stage is invoked at most once, and at most
\* seven extractor downloads are made (the test download of stage 1, one
\* primary attempt, five of the ladder), six of them in the download proper.
C39_BoundedDownloadWithTest == [][\A t \in Tasks : BoundedStep(t, 7)]_vars

\* C39 witness: download_video returned without a file after the test
\* download of stage 1 succeeded and all six selectors failed.
C39_Witness ==
  \E t \in Tasks :
    /\ req[t].pc \notin {"download_video", "stage", "ytdlp"}
    /\ req[t].stages = <<"direct">> /\ req[t].probe = "file"
    /\ Len(req[t].formats) = 6
    /\ req[t].video_path = NoFile

=============================================================================
